---- MODULE Spec2Model ----
(***************************************************************************)
(* A model of the conversational-context engine of the WhatsApp backend:   *)
(* the conversation history store (services/ai/conversationHistory), the   *)
(* knowledge base retriever (services/ai/knowledgeBase), the content       *)
(* normalizer (utils/contentNormalizer) and the reply orchestrator         *)
(* (services/ai/openai).                                                   *)
(*                                                                         *)
(* Strings are sequences of one-character strings, so that the tokenizer   *)
(* of the unit tests (one character, one token) and the link normalizer    *)
(* are computed on their text.  A JavaScript array that the code shares by *)
(* reference (a stored conversation) is a cell of heap, and a variable       *)
(* holding it is an index into heap.                                       *)
(***************************************************************************)
EXTENDS Integers, Sequences, FiniteSets, TLC

(* ----------------------------- bounds --------------------------------- *)

\* generateReply calls started in one behaviour
MaxRequests == 2
\* resetConversation calls in one behaviour
MaxResets == 1
\* direct store calls (addMessage, trimContext on a stored list) in one behaviour
MaxStoreOps == 2
\* length of the lists handed to trimContext in SpecTrim
MaxTrimLen == 3
\* the pieces of a text handed to normalizeAssistantReply, at most
MaxPieces == 3
\* the knowledge entries handed to normalizeAssistantReply, at most
MaxEntries == 2
\* the documents, and the metadatas, of a query result handed to the formatting
MaxDocuments == 2

(* ------------------------- configuration ------------------------------ *)

\* OpenAIServiceOptions.tokenLimit, as the unit tests configure it
tokenLimit == 100
\* KnowledgeBaseServiceOptions defaults
chromaMaxResults == 5
chromaMaxCharacters == 1500
\* the floor of the per-document limit
MinDocumentLimit == 200

systemPrompt == <<"Y", "o", "u", " ", "a", "r", "e", " ", "h", "e", "l", "p", "f", "u", "l">>

ConversationIds == {"c1", "c2"}
Requests == {1, 2}

(* --------------------------- text helpers ----------------------------- *)

Rep(ch, n) == [i \in 1..n |-> ch]

\* Array.prototype.splice(start, 1) and splice(start, 0, item) on a sequence,
\* start counted from 0 as in the code
SpliceOut(s, start) ==
  IF start >= Len(s) THEN s
  ELSE [i \in 1..(Len(s) - 1) |-> IF i <= start THEN s[i] ELSE s[i + 1]]

SpliceIn(s, start, item) ==
  LET at == IF start > Len(s) THEN Len(s) ELSE start
  IN  [i \in 1..(Len(s) + 1) |->
         IF i <= at THEN s[i] ELSE IF i = at + 1 THEN item ELSE s[i - 1]]

\* Array.prototype.indexOf: the first index (from 0) holding the same object, or -1
IndexOf(s, item) ==
  IF \E i \in 1..Len(s) : s[i] = item
  THEN (CHOOSE i \in 1..Len(s) : s[i] = item /\ \A j \in 1..(i - 1) : s[j] # item) - 1
  ELSE -1

Includes(s, item) == \E i \in 1..Len(s) : s[i] = item

Max(a, b) == IF a >= b THEN a ELSE b

(* ----------------------------- messages ------------------------------- *)

(* A ChatMessage.  kind says what content is in the code: a string         *)
(* (content holds its characters), an array of content parts (parts        *)
(* holds them) or null/undefined.  obj tells apart the objects that the    *)
(* code compares by identity: 0 for the messages of the history; the       *)
(* knowledge message a call builds takes the number of the call's slot.     *)
Msg(role, text) ==
  [role |-> role, kind |-> "string", content |-> text, parts |-> <<>>, obj |-> 0]

PartsMsg(role, parts) ==
  [role |-> role, kind |-> "parts", content |-> <<>>, parts |-> parts, obj |-> 0]

NullMsg(role) ==
  [role |-> role, kind |-> "null", content |-> <<>>, parts |-> <<>>, obj |-> 0]

TextPart(text) == [type |-> "text", text |-> text]
ImagePart == [type |-> "image_url", text |-> <<>>]

SystemMessage == Msg("system", systemPrompt)

(* ----------------------------- tokenizer ------------------------------ *)

\* the tokenizer of the unit tests: one token per character
encode(text) == [i \in 1..Len(text) |-> i - 1]

RECURSIVE SumParts(_)
SumParts(parts) ==
  IF parts = <<>> THEN 0
  ELSE (IF Head(parts).type = "text" THEN Len(encode(Head(parts).text)) ELSE 0)
       + SumParts(Tail(parts))

MessageTokens(m) ==
  CASE m.kind = "string" -> Len(encode(m.content))
    [] m.kind = "parts" -> SumParts(m.parts)
    [] OTHER -> 0

RECURSIVE countTokens(_)
countTokens(messages) ==
  IF messages = <<>> THEN 0
  ELSE MessageTokens(Head(messages)) + countTokens(Tail(messages))

(* ------------------------- conversation store ------------------------- *)

\* a loop that stops while two messages are left, whatever they weigh
TrimConditionKeepsTwo(messages) ==
  countTokens(messages) > tokenLimit /\ Len(messages) > 2

\* a loop body that removes the newest message instead of the oldest
TrimStepNewest(messages) == SpliceOut(messages, Len(messages) - 1)

\* a loop body that removes from the head of the array
TrimStepHead(messages) == SpliceOut(messages, 0)

\* the condition of trimContext's while loop
TrimCondition(messages) ==
  countTokens(messages) > tokenLimit /\ Len(messages) > 1

\* the body of the loop: messages.splice(1, 1)
TrimStep(messages) == SpliceOut(messages, 1)

\* trimContext: the list as the loop leaves it and the flag it returns
RECURSIVE TrimLoop(_, _)
TrimLoop(messages, trimmed) ==
  IF TrimCondition(messages)
  THEN TrimLoop(TrimStep(messages), TRUE)
  ELSE [messages |-> messages, trimmed |-> trimmed]

\* a trimContext that tests its condition after the removal
trimContextDoWhile(messages) ==
  IF Len(messages) > 1 THEN TrimLoop(TrimStep(messages), TRUE)
  ELSE TrimLoop(messages, FALSE)

\* a trimContext that removes nothing
trimContextNever(messages) == [messages |-> messages, trimmed |-> FALSE]

trimContext(messages) == TrimLoop(messages, FALSE)

(* ------------------------- content normalizer ------------------------- *)

HttpPrefix == <<"h", "t", "t", "p", ":", "/", "/">>
HttpsPrefix == <<"h", "t", "t", "p", "s", ":", "/", "/">>
WwwPrefix == <<"w", "w", "w", ".">>

\* what String.prototype.trim removes and the regular expression class \s matches
WhiteSpace == {" ", "\n", "\t", "\r"}
\* the class of stripTrailingPunctuation
TrailingPunctuation == {")", ".", ",", ";", ":", "!", "?"}

StartsWith(s, prefix) ==
  Len(s) >= Len(prefix) /\ SubSeq(s, 1, Len(prefix)) = prefix

\* s.slice(from) with from counted from 1
From(s, i) == SubSeq(s, i, Len(s))

RECURSIVE TrimStart(_)
TrimStart(s) ==
  IF s # <<>> /\ Head(s) \in WhiteSpace THEN TrimStart(Tail(s)) ELSE s

RECURSIVE TrimEnd(_)
TrimEnd(s) ==
  IF s # <<>> /\ s[Len(s)] \in WhiteSpace THEN TrimEnd(SubSeq(s, 1, Len(s) - 1)) ELSE s

Trim(s) == TrimEnd(TrimStart(s))

\* value.replace(/[\s\n]+/g, " ")
RECURSIVE CollapseWhiteSpace(_)
CollapseWhiteSpace(s) ==
  IF s = <<>> THEN <<>>
  ELSE IF Head(s) \in WhiteSpace
       THEN <<" ">> \o CollapseWhiteSpace(TrimStart(s))
       ELSE <<Head(s)>> \o CollapseWhiteSpace(Tail(s))

RECURSIVE stripTrailingPunctuation(_)
stripTrailingPunctuation(value) ==
  IF value # <<>> /\ value[Len(value)] \in TrailingPunctuation
  THEN stripTrailingPunctuation(SubSeq(value, 1, Len(value) - 1))
  ELSE value

isHttpUrl(value) == StartsWith(value, HttpPrefix) \/ StartsWith(value, HttpsPrefix)

\* the length of the longest prefix of s made of characters outside stop
RECURSIVE RunLength(_, _)
RunLength(s, stop) ==
  IF s = <<>> \/ Head(s) \in stop THEN 0 ELSE 1 + RunLength(Tail(s), stop)

\* the match of /(https?:\/\/[^\s)]+|www\.[^\s)]+)/ that starts at the head of s:
\* its length, or 0 when there is none
UrlMatchLength(s) ==
  LET stop == WhiteSpace \cup {")"}
      after(prefix) == RunLength(From(s, Len(prefix) + 1), stop)
  IN  IF StartsWith(s, HttpsPrefix) /\ after(HttpsPrefix) > 0
        THEN Len(HttpsPrefix) + after(HttpsPrefix)
      ELSE IF StartsWith(s, HttpPrefix) /\ after(HttpPrefix) > 0
        THEN Len(HttpPrefix) + after(HttpPrefix)
      ELSE IF StartsWith(s, WwwPrefix) /\ after(WwwPrefix) > 0
        THEN Len(WwwPrefix) + after(WwwPrefix)
      ELSE 0

\* extractFirstUrl: [found, url]
RECURSIVE extractFirstUrl(_)
extractFirstUrl(value) ==
  IF value = <<>> THEN [found |-> FALSE, url |-> <<>>]
  ELSE LET n == UrlMatchLength(value)
           url == SubSeq(value, 1, n)
       IN  IF n = 0 THEN extractFirstUrl(Tail(value))
           ELSE [found |-> TRUE,
                 url |-> IF StartsWith(url, WwwPrefix) THEN HttpsPrefix \o url ELSE url]

\* a resolveUrl that reads the head of the queue and leaves it there
resolveUrlWithoutShift(link, candidates) ==
  LET trimmed == Trim(link)
      inlineUrl == extractFirstUrl(trimmed)
  IN  IF trimmed = <<>> \/ StartsWith(trimmed, <<"#">>)
        THEN IF candidates = <<>>
             THEN [found |-> FALSE, url |-> <<>>, candidates |-> candidates]
             ELSE [found |-> TRUE, url |-> Head(candidates), candidates |-> candidates]
      ELSE IF isHttpUrl(trimmed)
        THEN [found |-> TRUE, url |-> trimmed, candidates |-> candidates]
      ELSE IF StartsWith(trimmed, WwwPrefix)
        THEN [found |-> TRUE, url |-> HttpsPrefix \o trimmed, candidates |-> candidates]
      ELSE [found |-> inlineUrl.found, url |-> inlineUrl.url, candidates |-> candidates]

\* resolveUrl: [found, url, candidates], candidates.shift() being the one change
\* to the queue.  An empty string is falsy where the caller tests the result.
resolveUrl(link, candidates) ==
  LET trimmed == Trim(link)
      inlineUrl == extractFirstUrl(trimmed)
  IN  IF trimmed = <<>> \/ StartsWith(trimmed, <<"#">>)
        THEN IF candidates = <<>>
             THEN [found |-> FALSE, url |-> <<>>, candidates |-> candidates]
             ELSE [found |-> TRUE, url |-> Head(candidates), candidates |-> Tail(candidates)]
      ELSE IF isHttpUrl(trimmed)
        THEN [found |-> TRUE, url |-> trimmed, candidates |-> candidates]
      ELSE IF StartsWith(trimmed, WwwPrefix)
        THEN [found |-> TRUE, url |-> HttpsPrefix \o trimmed, candidates |-> candidates]
      ELSE [found |-> inlineUrl.found, url |-> inlineUrl.url, candidates |-> candidates]

formatLink(label, url) ==
  LET cleanedLabel == Trim(CollapseWhiteSpace(Trim(label)))
  IN  IF cleanedLabel = <<>> THEN url
      ELSE cleanedLabel \o <<"\n">> \o stripTrailingPunctuation(url)

\* the match of a pattern that lets the target be empty, /\[([^\]]+)\]\(([^)]*)\)/
LinkMatchAtAnyTarget(s) ==
  LET none == [length |-> 0, label |-> <<>>, link |-> <<>>]
      l == RunLength(Tail(s), {"]"})
      rest == From(s, l + 3)
      t == RunLength(Tail(rest), {")"})
  IN  IF s = <<>> \/ Head(s) # "[" THEN none
      ELSE IF l = 0 \/ Len(s) < l + 2 THEN none
      ELSE IF rest = <<>> \/ Head(rest) # "(" THEN none
      ELSE IF Len(rest) < t + 2 THEN none
      ELSE [length |-> l + t + 4,
            label |-> SubSeq(s, 2, l + 1),
            link |-> SubSeq(rest, 2, t + 1)]

\* the match of /\[([^\]]+)\]\(([^)]+)\)/ that starts at the head of s:
\* [length, label, link], length 0 when there is none
LinkMatchAt(s) ==
  LET none == [length |-> 0, label |-> <<>>, link |-> <<>>]
      l == RunLength(Tail(s), {"]"})
      rest == From(s, l + 3)
      t == RunLength(Tail(rest), {")"})
  IN  IF s = <<>> \/ Head(s) # "[" THEN none
      ELSE IF l = 0 \/ Len(s) < l + 2 THEN none
      ELSE IF rest = <<>> \/ Head(rest) # "(" THEN none
      ELSE IF t = 0 \/ Len(rest) < t + 2 THEN none
      ELSE [length |-> l + t + 4,
            label |-> SubSeq(s, 2, l + 1),
            link |-> SubSeq(rest, 2, t + 1)]

\* markdownLinkRegex.exec from lastIndex on: the matches of the text, left to right
RECURSIVE LinkMatches(_)
LinkMatches(s) ==
  IF s = <<>> THEN <<>>
  ELSE LET m == LinkMatchAt(s)
       IN  IF m.length = 0 THEN LinkMatches(Tail(s))
           ELSE <<[fullMatch |-> SubSeq(s, 1, m.length), label |-> m.label, link |-> m.link]>>
                \o LinkMatches(From(s, m.length + 1))

\* the position (from 1) of the first occurrence of pattern in s, 0 when absent
FirstOccurrence(s, pattern) ==
  LET at(i) == i + Len(pattern) - 1 <= Len(s) /\ SubSeq(s, i, i + Len(pattern) - 1) = pattern
  IN  IF \E i \in 1..(Len(s) + 1) : at(i)
      THEN CHOOSE i \in 1..(Len(s) + 1) : at(i) /\ \A j \in 1..(i - 1) : ~at(j)
      ELSE 0

\* the backquote character, which a string of this module cannot hold
BackQuote == "bq"

\* GetSubstitution of String.prototype.replace for a string pattern: a dollar sign
\* followed by a dollar sign, an ampersand, a backquote or a quote is a replacement
\* pattern (a dollar sign, the match, the text before it, the text after it), and
\* every other character stands for itself
RECURSIVE GetSubstitution(_, _, _, _)
GetSubstitution(matched, before, after, replacement) ==
  IF replacement = <<>> THEN <<>>
  ELSE IF Head(replacement) = "$" /\ Len(replacement) >= 2
            /\ replacement[2] \in {"$", "&", BackQuote, "'"}
       THEN (CASE replacement[2] = "$" -> <<"$">>
               [] replacement[2] = "&" -> matched
               [] replacement[2] = BackQuote -> before
               [] OTHER -> after)
            \o GetSubstitution(matched, before, after, From(replacement, 3))
       ELSE <<Head(replacement)>>
            \o GetSubstitution(matched, before, after, Tail(replacement))

\* normalized.replace(fullMatch, replacement): the first literal occurrence only
Replace(s, pattern, replacement) ==
  LET i == FirstOccurrence(s, pattern)
      before == SubSeq(s, 1, i - 1)
      after == From(s, i + Len(pattern))
  IN  IF i = 0 THEN s
      ELSE before \o GetSubstitution(pattern, before, after, replacement) \o after

\* the candidate URLs of the knowledge entries
RECURSIVE candidateUrls(_)
candidateUrls(knowledgeEntries) ==
  IF knowledgeEntries = <<>> THEN <<>>
  ELSE LET entry == Head(knowledgeEntries)
           source == Trim(entry.source)
       IN  (IF entry.sourceIsString /\ isHttpUrl(source) THEN <<source>> ELSE <<>>)
           \o candidateUrls(Tail(knowledgeEntries))

\* the while loop of normalizeAssistantReply over the matches of the original text
RECURSIVE NormalizeLoop(_, _, _)
NormalizeLoop(normalized, matches, candidates) ==
  IF matches = <<>> THEN normalized
  ELSE LET match == Head(matches)
           resolved == resolveUrl(match.link, candidates)
           replacement == IF resolved.found /\ resolved.url # <<>>
                          THEN formatLink(match.label, resolved.url)
                          ELSE Trim(match.label)
       IN  NormalizeLoop(Replace(normalized, match.fullMatch, replacement),
                         Tail(matches), resolved.candidates)

normalizeAssistantReply(content, knowledgeEntries) ==
  IF ~Includes(content, "[") \/ ~Includes(content, ")") THEN content
  ELSE IF LinkMatches(content) = <<>> THEN content
  ELSE NormalizeLoop(content, LinkMatches(content), candidateUrls(knowledgeEntries))

(* --------------------------- knowledge base --------------------------- *)

KnowledgeHeader == <<"K", "n", "o", "w", "l", "e", "d", "g", "e", " ", "b", "a", "s", "e", " ", "c", "o", "n", "t", "e", "x", "t", ":", "\n">>
EntryOpen == <<"-", " ", "(">>
SourceLabel == <<" ", "|", " ", "s", "o", "u", "r", "c", "e", ":", " ">>
ScoreLabel == <<" ", "|", " ", "s", "c", "o", "r", "e", ":", " ">>
EntryClose == <<")", " ">>
SnippetPrefix == <<"s", "n", "i", "p", "p", "e", "t", "-">>
UnknownSource == <<"u", "n", "k", "n", "o", "w", "n">>
Ellipsis == <<".", ".", ".">>

Digit(d) == <<"0", "1", "2", "3", "4", "5", "6", "7", "8", "9">>[d + 1]

\* the decimal digits of a natural number
RECURSIVE NatToString(_)
NatToString(n) ==
  IF n < 10 THEN <<Digit(n)>> ELSE NatToString(n \div 10) \o <<Digit(n % 10)>>

(* distance.toFixed(4).  A distance is held in hundred-thousandths (12344   *)
(* is 0.12344); toFixed rounds it to four decimals, halves upwards.         *)
ToFixed4(distance) ==
  LET r == (distance + 5) \div 10
      f == r % 10000
  IN  NatToString(r \div 10000) \o <<".">>
      \o <<Digit(f \div 1000), Digit((f \div 100) % 10), Digit((f \div 10) % 10), Digit(f % 10)>>

\* a truncate that appends the ellipsis to limit characters
truncateAppending(value, limit) ==
  IF Len(value) <= limit THEN value
  ELSE SubSeq(value, 1, limit) \o Ellipsis

truncate(value, limit) ==
  IF Len(value) <= limit THEN value
  ELSE SubSeq(value, 1, Max(0, limit - 3)) \o Ellipsis

\* the limit of a service created with the options maxCharacters and maxResults
DocumentLimit(maxCharacters, maxResults) ==
  Max(MinDocumentLimit, maxCharacters \div Max(1, maxResults))

perDocumentLimit == DocumentLimit(chromaMaxCharacters, chromaMaxResults)

(* A query result: the first (only) batch of documents, metadatas and      *)
(* distances.  A document is [isNull, text]; a metadata is                  *)
(* [isNull, hasTitle, title, hasSource, source], hasX telling whether the   *)
(* field is a string; a distance is [isNumber, value].  An index past the   *)
(* end of metadatas or distances reads undefined.                           *)
NoMetadata ==
  [isNull |-> TRUE, hasTitle |-> FALSE, title |-> <<>>, hasSource |-> FALSE, source |-> <<>>]
NoDistance == [isNumber |-> FALSE, value |-> 0]

MetadataAt(metadatas, index) ==
  IF index + 1 <= Len(metadatas) /\ ~metadatas[index + 1].isNull
  THEN metadatas[index + 1] ELSE NoMetadata

DistanceAt(distances, index) ==
  IF index + 1 <= Len(distances) THEN distances[index + 1] ELSE NoDistance

\* an entry whose synthetic title counts the documents kept so far
EntryCountingKept(queryResult, index, limit) ==
  LET doc == queryResult.documents[index + 1]
      metadata == MetadataAt(queryResult.metadatas, index)
      kept == Cardinality({i \in 1..(index + 1) :
                             ~queryResult.documents[i].isNull
                             /\ queryResult.documents[i].text # <<>>})
      title == IF metadata.hasTitle THEN metadata.title
               ELSE SnippetPrefix \o NatToString(kept)
      source == IF metadata.hasSource THEN metadata.source ELSE UnknownSource
      distance == DistanceAt(queryResult.distances, index)
      scoreFragment == IF distance.isNumber THEN ScoreLabel \o ToFixed4(distance.value)
                       ELSE <<>>
  IN  [entry |-> [title |-> title, sourceIsString |-> TRUE, source |-> source],
       line |-> EntryOpen \o title \o SourceLabel \o source \o scoreFragment
                \o EntryClose \o truncate(doc.text, limit)]

\* the body of documents.forEach for the document at index (from 0), in a service
\* whose per-document limit is limit: what it pushes on entriesForContext and on
\* entries
EntryWith(queryResult, index, limit) ==
  LET doc == queryResult.documents[index + 1]
      metadata == MetadataAt(queryResult.metadatas, index)
      title == IF metadata.hasTitle THEN metadata.title
               ELSE SnippetPrefix \o NatToString(index + 1)
      source == IF metadata.hasSource THEN metadata.source ELSE UnknownSource
      distance == DistanceAt(queryResult.distances, index)
      scoreFragment == IF distance.isNumber THEN ScoreLabel \o ToFixed4(distance.value)
                       ELSE <<>>
  IN  [entry |-> [title |-> title, sourceIsString |-> TRUE, source |-> source],
       line |-> EntryOpen \o title \o SourceLabel \o source \o scoreFragment
                \o EntryClose \o truncate(doc.text, limit)]

EntryFor(queryResult, index) == EntryWith(queryResult, index, perDocumentLimit)

\* a document the loop skips: null, undefined or the empty string
Unusable(doc) == doc.isNull \/ doc.text = <<>>

\* the indices (from 0) of the documents the loop keeps, in result order
RECURSIVE UsableFrom(_, _)
UsableFrom(documents, index) ==
  IF index >= Len(documents) THEN <<>>
  ELSE (IF Unusable(documents[index + 1]) THEN <<>> ELSE <<index>>)
       \o UsableFrom(documents, index + 1)

\* entries.join("\n")
RECURSIVE JoinLines(_)
JoinLines(lines) ==
  IF lines = <<>> THEN <<>>
  ELSE IF Len(lines) = 1 THEN Head(lines)
  ELSE Head(lines) \o <<"\n">> \o JoinLines(Tail(lines))

NullContext == [isNull |-> TRUE, message |-> NullMsg("system"), entries |-> <<>>]

\* a context built without looking whether any document was usable
ContextOfAnyResult(queryResult, serial) ==
  LET usable == UsableFrom(queryResult.documents, 0)
      built == [i \in 1..Len(usable) |-> EntryFor(queryResult, usable[i])]
      contextString == KnowledgeHeader \o JoinLines([i \in 1..Len(built) |-> built[i].line])
  IN  [isNull |-> FALSE,
       message |-> [Msg("system", contextString) EXCEPT !.obj = serial],
       entries |-> [i \in 1..Len(built) |-> built[i].entry]]

(* What buildKnowledgeContext makes of a query result in a service whose    *)
(* per-document limit is limit: null when no document is usable, else the   *)
(* context, whose message is a new object (obj is the serial of the call    *)
(* building it).                                                            *)
ContextWith(queryResult, serial, limit) ==
  LET usable == UsableFrom(queryResult.documents, 0)
      built == [i \in 1..Len(usable) |-> EntryWith(queryResult, usable[i], limit)]
      contextString == KnowledgeHeader \o JoinLines([i \in 1..Len(built) |-> built[i].line])
  IN  IF Len(built) = 0 THEN NullContext
      ELSE [isNull |-> FALSE,
            message |-> [Msg("system", contextString) EXCEPT !.obj = serial],
            entries |-> [i \in 1..Len(built) |-> built[i].entry]]

\* the same in the service with the default options
ContextOf(queryResult, serial) == ContextWith(queryResult, serial, perDocumentLimit)

(* -------------------------- reply orchestrator ------------------------ *)

\* where applyKnowledgeContext splices the knowledge message in: splice(length - 1, 0, m),
\* a negative start being counted from the end and clamped to 0
KnowledgeSpliceStart(requestMessages) == Max(0, Len(requestMessages) - 1)

\* a removal that takes the oldest message of the history instead
DropOldest(messagesWithKnowledge, knowledgeMessage) == SpliceOut(messagesWithKnowledge, 1)

\* the removal of the knowledge message when the spliced copy exceeds the budget
DropKnowledge(messagesWithKnowledge, knowledgeMessage) ==
  LET index == IndexOf(messagesWithKnowledge, knowledgeMessage)
  IN  IF index >= 0 THEN SpliceOut(messagesWithKnowledge, index) ELSE messagesWithKnowledge

\* a splice that keeps the knowledge message whatever the copy then weighs
applyKnowledgeContextKeeping(requestMessages, knowledgeContext) ==
  IF knowledgeContext.isNull
    THEN [messages |-> requestMessages, applied |-> FALSE]
  ELSE [messages |-> SpliceIn(requestMessages, KnowledgeSpliceStart(requestMessages),
                              knowledgeContext.message),
        applied |-> TRUE]

applyKnowledgeContext(requestMessages, knowledgeContext) ==
  LET messagesWithKnowledge ==
        SpliceIn(requestMessages, KnowledgeSpliceStart(requestMessages),
                 knowledgeContext.message)
      exceedsTokenLimit == countTokens(messagesWithKnowledge) > tokenLimit
  IN  IF knowledgeContext.isNull
        THEN [messages |-> requestMessages, applied |-> FALSE]
      ELSE IF exceedsTokenLimit
        THEN [messages |-> DropKnowledge(messagesWithKnowledge, knowledgeContext.message),
              applied |-> FALSE]
      ELSE [messages |-> messagesWithKnowledge, applied |-> TRUE]

\* a breakdown that counts the knowledge message of any context, applied or not
BreakdownCountingDropped(requestMessages, knowledgeApplied, knowledgeContext) ==
  LET totalRequestTokens == countTokens(requestMessages)
      knowledgeTokens == IF ~knowledgeContext.isNull
                         THEN countTokens(<<knowledgeContext.message>>) ELSE 0
      userTokens == countTokens(<<IF requestMessages = <<>> THEN Msg("user", <<>>)
                                  ELSE requestMessages[Len(requestMessages)]>>)
  IN  [totalRequestTokens |-> totalRequestTokens,
       knowledgeTokens |-> knowledgeTokens,
       userTokens |-> userTokens,
       conversationTokens |-> totalRequestTokens - knowledgeTokens - userTokens]

calculateTokenBreakdown(requestMessages, knowledgeApplied, knowledgeContext) ==
  LET totalRequestTokens == countTokens(requestMessages)
      knowledgeTokens == IF knowledgeApplied /\ ~knowledgeContext.isNull
                         THEN countTokens(<<knowledgeContext.message>>) ELSE 0
      userTokens == countTokens(<<IF requestMessages = <<>> THEN Msg("user", <<>>)
                                  ELSE requestMessages[Len(requestMessages)]>>)
  IN  [totalRequestTokens |-> totalRequestTokens,
       knowledgeTokens |-> knowledgeTokens,
       userTokens |-> userTokens,
       conversationTokens |-> Max(0, totalRequestTokens - knowledgeTokens - userTokens)]

NoBreakdown ==
  [totalRequestTokens |-> 0, knowledgeTokens |-> 0, userTokens |-> 0, conversationTokens |-> 0]

(* A ChatCompletion as extractResponseMessage reads it: whether choices[0]  *)
(* and its message exist, and the message's content (null, or a string).    *)
Completion(hasChoice, hasMessage, contentIsNull, content, usage) ==
  [hasChoice |-> hasChoice, hasMessage |-> hasMessage, contentIsNull |-> contentIsNull,
   content |-> content, usage |-> usage]

\* a test of the content against null only
ContentMissingNullOnly(response) ==
  ~response.hasChoice \/ ~response.hasMessage \/ response.contentIsNull

\* !responseMessage?.content: no choice, no message, null content or the empty string
ContentMissing(response) ==
  ~response.hasChoice \/ ~response.hasMessage \/ response.contentIsNull
  \/ response.content = <<>>

NoContentError == "No content returned from OpenAI response"

\* a message that keeps the content as the model gave it
EnrichedResponseRaw(response, knowledgeEntries) == Msg("assistant", response.content)

\* saveAssistantResponse's message: the response message with its content normalized
EnrichedResponseMessage(response, knowledgeEntries) ==
  Msg("assistant", normalizeAssistantReply(response.content, knowledgeEntries))

(* ------------------------------- state -------------------------------- *)

VARIABLES
  heap,                    \* the message arrays ever created, by reference
  conversations,           \* the Map of the history service: id -> reference, 0 when absent
  chromaCollectionPromise, \* the cached resolution: 0 (null) or an attempt of attempts
  attempts,                \* the getOrCreateCollection calls: "pending", "fulfilled", "rejected"
  startup,                 \* the initializer of createKnowledgeBaseService: [pc, attempt]
  pc,                      \* where each generateReply call is
  gr,                      \* the local variables of each generateReply call
  result,                  \* the promise each generateReply call returned
  nRequests,               \* generateReply calls started
  nResets,                 \* resetConversation calls made
  nStoreOps,               \* direct calls of the history service made
  tc,                      \* SpecTrim: one trimContext call on a list of its own
  nz,                      \* SpecNormalize: one normalizeAssistantReply call
  kc                       \* SpecContext: the formatting of one query result

vars == <<heap, conversations, chromaCollectionPromise, attempts, startup, pc, gr,
          result, nRequests, nResets, nStoreOps, tc, nz, kc>>

storeVars == <<heap, conversations>>
chromaVars == <<chromaCollectionPromise, attempts, startup>>
callVars == <<pc, gr, result, nRequests>>
countVars == <<nResets, nStoreOps>>

(* ------------------------------- inputs ------------------------------- *)

HiThere == <<"H", "i", " ", "t", "h", "e", "r", "e">>
\* a message that fits the budget beside the system prompt, but not with knowledge
LongMessage == Rep("m", 50)
\* a message that exceeds the budget together with the system prompt
HugeMessage == Rep("x", 90)

UserMessages == {HiThere, HugeMessage}

PlainReply == <<"o", "k">>
PlaceholderLink == <<"[", "a", "]", "(", "#", ")">>
\* a reply that exceeds the budget together with the system prompt
LongReply == Rep("r", 90)

Usage == [isNull |-> FALSE, total_tokens |-> 42]
NoUsage == [isNull |-> TRUE, total_tokens |-> 0]

Completions ==
  { Completion(FALSE, FALSE, TRUE, <<>>, NoUsage),
    Completion(TRUE, FALSE, TRUE, <<>>, Usage),
    Completion(TRUE, TRUE, TRUE, <<>>, Usage),
    Completion(TRUE, TRUE, FALSE, <<>>, Usage),
    Completion(TRUE, TRUE, FALSE, PlaceholderLink, Usage),
    Completion(TRUE, TRUE, FALSE, LongReply, Usage) }

\* the errors client.chat.completions.create rejects with
ApiErrors == {"APIConnectionError"}

Doc(text) == [isNull |-> FALSE, text |-> text]
NullDoc == [isNull |-> TRUE, text |-> <<>>]
DocText == <<"d", "o", "c", "s">>
DocTitle == <<"T">>
DocSource == <<"h", "t", "t", "p", "s", ":", "/", "/", "x", ".", "t", "e", "s", "t", "/", "a">>
Metadata(title, source) ==
  [isNull |-> FALSE, hasTitle |-> TRUE, title |-> title, hasSource |-> TRUE, source |-> source]
Distance(value) == [isNumber |-> TRUE, value |-> value]

QueryResults ==
  { [documents |-> <<>>, metadatas |-> <<>>, distances |-> <<>>],
    [documents |-> <<NullDoc, Doc(<<>>)>>, metadatas |-> <<NoMetadata>>, distances |-> <<>>],
    [documents |-> <<Doc(DocText)>>, metadatas |-> <<Metadata(DocTitle, DocSource)>>,
     distances |-> <<Distance(12345)>>] }

\* messages handed to addMessage directly
DirectMessages ==
  { Msg("system", PlainReply), PartsMsg("user", <<TextPart(LongMessage), ImagePart>>) }

(* -------------------- history service on the store -------------------- *)

(* The store is [heap, conversations].  heap[id] lists the arrays ever      *)
(* created for the conversation id, oldest first, and a reference to an     *)
(* array is [id, gen], its place there; conversations[id] is the place of   *)
(* the array the Map holds for id, 0 when the Map has no entry.  Each       *)
(* operation gives the store it leaves; ensureConversation also gives the   *)
(* reference it returns.                                                    *)
Store(h, c) == [heap |-> h, conversations |-> c]

Ref(conversationId, gen) == [id |-> conversationId, gen |-> gen]
NoRef == [id |-> "", gen |-> 0]

\* the array a reference refers to
Deref(h, ref) == h[ref.id][ref.gen]

\* the store with a new array [system prompt] set in the Map for the id
SetFresh(st, conversationId) ==
  Store([st.heap EXCEPT ![conversationId] = Append(@, <<SystemMessage>>)],
        [st.conversations EXCEPT ![conversationId] = Len(st.heap[conversationId]) + 1])

\* an ensureConversation that sets a new array whether the id has one or not
ensureConversationAnew(st, conversationId) ==
  [store |-> SetFresh(st, conversationId),
   ref |-> Ref(conversationId, Len(st.heap[conversationId]) + 1)]

ensureConversation(st, conversationId) ==
  IF st.conversations[conversationId] # 0
  THEN [store |-> st, ref |-> Ref(conversationId, st.conversations[conversationId])]
  ELSE [store |-> SetFresh(st, conversationId),
        ref |-> Ref(conversationId, Len(st.heap[conversationId]) + 1)]

getMessages(st, conversationId) == ensureConversation(st, conversationId)

\* an addMessage that puts the message right after the system prompt
addMessageAfterPrompt(st, conversationId, message) ==
  LET e == ensureConversation(st, conversationId)
  IN  Store([e.store.heap EXCEPT ![e.ref.id][e.ref.gen] = SpliceIn(@, 1, message)],
            e.store.conversations)

\* an addMessage that appends the message to every conversation the Map holds
addMessageEverywhere(st, conversationId, message) ==
  LET e == ensureConversation(st, conversationId)
      c == e.store.conversations
  IN  Store([id \in DOMAIN e.store.heap |->
               IF c[id] = 0 THEN e.store.heap[id]
               ELSE [e.store.heap[id] EXCEPT ![c[id]] = Append(@, message)]],
            c)

addMessage(st, conversationId, message) ==
  LET e == ensureConversation(st, conversationId)
  IN  Store([e.store.heap EXCEPT ![e.ref.id][e.ref.gen] = Append(@, message)],
            e.store.conversations)

\* a resetConversation that sets a copy of the array the id has
resetConversationToCopy(st, conversationId) ==
  IF st.conversations[conversationId] = 0 THEN SetFresh(st, conversationId)
  ELSE Store([st.heap EXCEPT ![conversationId] =
                Append(@, @[st.conversations[conversationId]])],
             [st.conversations EXCEPT ![conversationId] = Len(st.heap[conversationId]) + 1])

\* a resetConversation that sets a new array holding the first two messages of
\* the array the id has
resetConversationKeepingTwo(st, conversationId) ==
  IF st.conversations[conversationId] = 0 THEN SetFresh(st, conversationId)
  ELSE LET old == st.heap[conversationId][st.conversations[conversationId]]
       IN  Store([st.heap EXCEPT ![conversationId] =
                    Append(@, SubSeq(old, 1, IF Len(old) < 2 THEN Len(old) ELSE 2))],
                 [st.conversations EXCEPT ![conversationId] =
                    Len(st.heap[conversationId]) + 1])

resetConversation(st, conversationId) == SetFresh(st, conversationId)

\* trimContext on the array that ref refers to: the store it leaves and the flag
trimStored(st, ref) ==
  LET t == trimContext(Deref(st.heap, ref))
  IN  [store |-> Store([st.heap EXCEPT ![ref.id][ref.gen] = t.messages], st.conversations),
       trimmed |-> t.trimmed]

\* an addUserMessage that does not store the message
addUserMessageUnsaved(st, conversationId, message) ==
  LET e == getMessages(st, conversationId)
  IN  [store |-> e.store, ref |-> e.ref]

\* addUserMessage: the reference getMessages returned, and the store after addMessage
addUserMessage(st, conversationId, message) ==
  LET e == getMessages(st, conversationId)
  IN  [store |-> addMessage(e.store, conversationId, Msg("user", message)), ref |-> e.ref]

\* the conversation the Map holds for an id that has one
Stored(conversationId) == heap[conversationId][conversations[conversationId]]

(* An array that neither the Map nor a generateReply call in flight refers  *)
(* to is garbage: it is emptied, which no operation can observe.            *)
Collect(h, c, held) ==
  [id \in DOMAIN h |->
     [n \in 1..Len(h[id]) |->
        IF c[id] = n \/ Ref(id, n) \in held THEN h[id][n] ELSE <<>>]]

(* ---------------------------- initial state --------------------------- *)

NoCall ==
  [conversationId |-> "", message |-> <<>>, serial |-> 0, messages |-> NoRef,
   trimmedBeforeCall |-> FALSE, requestMessages |-> <<>>, attempt |-> 0,
   embedded |-> FALSE, embedding |-> [rejects |-> FALSE, data |-> <<>>],
   retrieval |-> "", knowledgeContext |-> NullContext,
   finalRequestMessages |-> <<>>, knowledgeApplied |-> FALSE, trimmedRequest |-> FALSE,
   tokenBreakdown |-> NoBreakdown,
   apiError |-> "", responded |-> FALSE,
   response |-> Completion(FALSE, FALSE, TRUE, <<>>, NoUsage),
   calls |-> [embedTexts |-> 0, query |-> 0, completions |-> 0]]

NoTokens ==
  [totalTokens |-> 0, usageTokens |-> [isNull |-> TRUE, total_tokens |-> 0],
   requestTokens |-> 0, conversationTokens |-> 0, knowledgeTokens |-> 0, userTokens |-> 0]

Pending == [state |-> "none", response |-> <<>>, error |-> "", tokens |-> NoTokens]

NoTrimCall ==
  [phase |-> "none", input |-> <<>>, messages |-> <<>>, trimmed |-> FALSE, first |-> <<>>]

NoNormalizeCall == [phase |-> "none", content |-> <<>>, knowledgeEntries |-> <<>>, output |-> <<>>]

\* createOpenAIService has run: no conversation, no cached collection, and the
\* initializer of the knowledge base service waiting for the heartbeat
InitService ==
  /\ heap = [id \in ConversationIds |-> <<>>]
  /\ conversations = [id \in ConversationIds |-> 0]
  /\ chromaCollectionPromise = 0
  /\ attempts = <<>>
  /\ startup = [pc |-> "heartbeat", attempt |-> 0]
  /\ pc = [p \in Requests |-> "idle"]
  /\ gr = [p \in Requests |-> NoCall]
  /\ result = [p \in Requests |-> Pending]
  /\ nRequests = 0
  /\ nResets = 0
  /\ nStoreOps = 0

NoContextCall ==
  [phase |-> "none", chromaMaxResults |-> 0, chromaMaxCharacters |-> 0,
   queryResult |-> [documents |-> <<>>, metadatas |-> <<>>, distances |-> <<>>],
   context |-> NullContext]

Init == InitService /\ tc = NoTrimCall /\ nz = NoNormalizeCall /\ kc = NoContextCall

(* ------------------------- positions of calls ------------------------- *)

\* a call that has not settled yet.  A new call takes the first slot that holds none.
InFlight(p) == pc[p] \in {"resolve", "embed", "query", "completion"}

\* a call that has settled and whose caller has not resumed yet
Settled(p) == pc[p] \in {"fulfilled", "rejected"}

\* the continuation of the caller of a settled call is a microtask: it runs before
\* any other callback, so every other step finds no settled call
Quiet == \A p \in Requests : ~Settled(p)

(* --------------------- collection resolution (chroma) ------------------ *)

(* attempts[a] is the state of the promise that resolveChromaCollection     *)
(* cached for its a-th getOrCreateCollection call: "pending", "fulfilled"   *)
(* or "rejected".  A rejected promise that is no longer cached and that no  *)
(* caller awaits is garbage: its place is "free" and is used again.         *)
RECURSIVE DropFree(_)
DropFree(atts) ==
  IF atts # <<>> /\ atts[Len(atts)] = "free"
  THEN DropFree(SubSeq(atts, 1, Len(atts) - 1)) ELSE atts

CollectAttempts(atts, cached, awaited) ==
  DropFree([a \in 1..Len(atts) |->
              IF atts[a] = "rejected" /\ a # cached /\ a \notin awaited
              THEN "free" ELSE atts[a]])

\* the place of a new attempt
NewAttempt(atts) ==
  IF \E a \in 1..Len(atts) : atts[a] = "free"
  THEN CHOOSE a \in 1..Len(atts) : atts[a] = "free" /\ \A b \in 1..(a - 1) : atts[b] # "free"
  ELSE Len(atts) + 1

\* a resolution that calls getOrCreateCollection whatever is cached
resolveChromaCollectionAnew(cached, atts) ==
  LET a == NewAttempt(atts)
  IN  [promise |-> a,
       attempts |-> [i \in 1..Max(a, Len(atts)) |-> IF i = a THEN "pending" ELSE atts[i]],
       awaited |-> a]

(* resolveChromaCollection up to its await: a new getOrCreateCollection     *)
(* attempt when nothing is cached, and the attempt the caller then awaits.  *)
resolveChromaCollection(cached, atts) ==
  IF cached = 0
  THEN LET a == NewAttempt(atts)
       IN  [promise |-> a,
            attempts |-> [i \in 1..Max(a, Len(atts)) |-> IF i = a THEN "pending" ELSE atts[i]],
            awaited |-> a]
  ELSE [promise |-> cached, attempts |-> atts, awaited |-> cached]

\* the attempts that the callers of ps and, with it, the initializer await
Awaited(ps, withStartup) ==
  {gr[p].attempt : p \in {q \in ps : pc[q] = "resolve"}}
  \cup (IF withStartup /\ startup.pc = "resolve" THEN {startup.attempt} ELSE {})

\* getOrCreateCollection resolves
CollectionResolves(a) ==
  /\ Quiet
  /\ a \in 1..Len(attempts)
  /\ attempts[a] = "pending"
  /\ attempts' = [attempts EXCEPT ![a] = "fulfilled"]
  /\ UNCHANGED <<heap, conversations, chromaCollectionPromise, startup, pc, gr, result,
                 nRequests, nResets, nStoreOps, tc, nz, kc>>

\* a catch handler that leaves the rejected promise cached
KeptCache(cached, a) == cached

\* what the catch handler of an attempt assigns to chromaCollectionPromise
ClearedCache(cached, a) == 0

\* getOrCreateCollection rejects: the catch handler clears the cache and rejects again
CollectionRejects(a) ==
  /\ Quiet
  /\ a \in 1..Len(attempts)
  /\ attempts[a] = "pending"
  /\ chromaCollectionPromise' = ClearedCache(chromaCollectionPromise, a)
  /\ attempts' = CollectAttempts([attempts EXCEPT ![a] = "rejected"],
                                 chromaCollectionPromise', Awaited(Requests, TRUE))
  /\ UNCHANGED <<heap, conversations, startup, pc, gr, result,
                 nRequests, nResets, nStoreOps, tc, nz, kc>>

\* the initializer: heartbeat settles (either way it is only logged), then
\* resolveChromaCollection is called
StartupHeartbeatSettled ==
  /\ Quiet
  /\ startup.pc = "heartbeat"
  /\ LET r == resolveChromaCollection(chromaCollectionPromise, attempts)
     IN  /\ chromaCollectionPromise' = r.promise
         /\ attempts' = r.attempts
         /\ startup' = [pc |-> "resolve", attempt |-> r.awaited]
  /\ UNCHANGED <<heap, conversations, pc, gr, result, nRequests, nResets, nStoreOps, tc, nz, kc>>

\* the initializer's await of resolveChromaCollection returns (a collection or null)
StartupResolveSettled ==
  /\ Quiet
  /\ startup.pc = "resolve"
  /\ attempts[startup.attempt] # "pending"
  /\ startup' = [pc |-> "done", attempt |-> 0]
  /\ attempts' = CollectAttempts(attempts, chromaCollectionPromise, Awaited(Requests, FALSE))
  /\ UNCHANGED <<heap, conversations, chromaCollectionPromise, pc, gr, result,
                 nRequests, nResets, nStoreOps, tc, nz, kc>>

(* ------------------------------ generateReply -------------------------- *)

\* the arrays the calls of ps that are in flight hold
Held(ps) == {gr[p].messages : p \in {q \in ps : InFlight(q)}}

\* a request view that is the stored array itself
RequestViewAliased(h, ref, finalRequestMessages) ==
  [h EXCEPT ![ref.id][ref.gen] = finalRequestMessages]

(* The request view is a copy ([...messages]): what the call does to its    *)
(* own array afterwards leaves the stored array as it is.  The operator     *)
(* gives the heap after the call has spliced and trimmed its request array. *)
RequestView(h, ref, finalRequestMessages) == h

(* generateReply up to its first await: addUserMessage, the pre-trim of the *)
(* stored array, the snapshot, and buildKnowledgeContext up to the await of *)
(* the collection.                                                          *)
GenerateReply(p, conversationId, message) ==
  /\ Quiet
  /\ pc[p] = "idle"
  /\ \A q \in Requests : q < p => InFlight(q)
  /\ nRequests < MaxRequests
  /\ LET added == addUserMessage(Store(heap, conversations), conversationId, message)
         trimmed == trimStored(added.store, added.ref)
         r == resolveChromaCollection(chromaCollectionPromise, attempts)
     IN  /\ heap' = trimmed.store.heap
         /\ conversations' = trimmed.store.conversations
         /\ chromaCollectionPromise' = r.promise
         /\ attempts' = r.attempts
         /\ gr' = [gr EXCEPT ![p] =
                     [NoCall EXCEPT !.conversationId = conversationId,
                                    !.message = message,
                                    !.serial = p,
                                    !.messages = added.ref,
                                    !.trimmedBeforeCall = trimmed.trimmed,
                                    !.requestMessages = Deref(trimmed.store.heap, added.ref),
                                    !.attempt = r.awaited]]
  /\ pc' = [pc EXCEPT ![p] = "resolve"]
  /\ result' = [result EXCEPT ![p] = Pending]
  /\ nRequests' = nRequests + 1
  /\ UNCHANGED <<startup, nResets, nStoreOps, tc, nz, kc>>

\* an invocation that is made again when the first has settled
InvokeTwice(calls, api) == [calls EXCEPT ![api] = @ + 2]

\* the calls a generateReply call has made, after it invokes the embedding
\* function ("embedTexts"), the vector store ("query") or the completion API
\* ("completions")
Invoke(calls, api) == [calls EXCEPT ![api] = @ + 1]

(* What a step of buildKnowledgeContext comes to: the next call is made     *)
(* ("continue"), the function returns a context or null ("return"), or it   *)
(* throws ("throw").                                                        *)
Continue == [kind |-> "continue", context |-> NullContext, retrieval |-> "", error |-> ""]
Return(context, retrieval) ==
  [kind |-> "return", context |-> context, retrieval |-> retrieval, error |-> ""]
Throw(error) == [kind |-> "throw", context |-> NullContext, retrieval |-> "", error |-> error]

\* resolveChromaCollection's try/catch around the await, and the test of its result
AfterResolve(attemptState) ==
  IF attemptState = "rejected" THEN Return(NullContext, "collection.unresolved")
  ELSE Continue

(* An embedding as the embeddings API gives it: an array of elements, each   *)
(* a finite number ("finite") or not ("NaN"), or a value that is no array.  *)
Embedding(elements) == [isArray |-> TRUE, elements |-> elements]
NoEmbedding == [isArray |-> FALSE, elements |-> <<>>]

isEmbeddingVector(value) ==
  /\ value.isArray
  /\ Len(value.elements) > 0
  /\ \A i \in 1..Len(value.elements) : value.elements[i] = "finite"

\* what openaiClient.embeddings.create settles with: it rejects, or resolves with
\* response.data, the embeddings of the items
EmbedOutcomes ==
  {[rejects |-> TRUE, data |-> <<>>]}
  \cup {[rejects |-> FALSE, data |-> data] :
          data \in { <<>>, <<Embedding(<<"finite", "finite">>)>>, <<Embedding(<<>>)>>,
                     <<Embedding(<<"finite", "NaN">>)>>,
                     <<Embedding(<<"finite">>), NoEmbedding>> }}

\* the default embedTexts: it throws when the API rejects or when one embedding
\* is no vector, and returns the embeddings otherwise
embedTexts(outcome) ==
  IF outcome.rejects \/ \E i \in 1..Len(outcome.data) : ~isEmbeddingVector(outcome.data[i])
  THEN [throws |-> TRUE, queryEmbeddings |-> <<>>]
  ELSE [throws |-> FALSE, queryEmbeddings |-> outcome.data]

\* an embedding step that queries the vector store with whatever embedTexts returned
AfterEmbedUnchecked(outcome) ==
  IF embedTexts(outcome).throws THEN Return(NullContext, "openai.embedding.failed")
  ELSE Continue

\* the try/catch around embedTexts, and the test for an empty result
AfterEmbed(outcome) ==
  LET embedded == embedTexts(outcome)
  IN  IF embedded.throws THEN Return(NullContext, "openai.embedding.failed")
      ELSE IF Len(embedded.queryEmbeddings) = 0
           THEN Return(NullContext, "openai.embedding.empty")
      ELSE Continue

\* a query awaited outside any try
AfterQueryUncaught(outcome, serial) ==
  IF outcome.rejects THEN Throw("ChromaConnectionError")
  ELSE LET context == ContextOf(outcome.result, serial)
       IN  Return(context,
                  IF context.isNull THEN "chroma.query.empty" ELSE "chroma.query.success")

\* the try/catch around collection.query and the formatting of its result
QueryOutcomes ==
  {[rejects |-> TRUE, result |-> [documents |-> <<>>, metadatas |-> <<>>, distances |-> <<>>]]}
  \cup {[rejects |-> FALSE, result |-> queryResult] : queryResult \in QueryResults}
AfterQuery(outcome, serial) ==
  IF outcome.rejects THEN Return(NullContext, "chroma.query.failed")
  ELSE LET context == ContextOf(outcome.result, serial)
       IN  Return(context,
                  IF context.isNull THEN "chroma.query.empty" ELSE "chroma.query.success")

\* the retrievals that end without a query result, and the one without a usable document
FailedRetrievals ==
  {"collection.unresolved", "openai.embedding.failed", "openai.embedding.empty",
   "chroma.query.failed"}
EmptyRetrievals == {"chroma.query.empty"}

(* generateReply from the return of buildKnowledgeContext to the await of   *)
(* the completion: the splice, the trim of the request's own array, the     *)
(* token breakdown and the call of the completion API.                      *)
Proceed(p, call, knowledgeContext, retrieval) ==
  LET spliced == applyKnowledgeContext(call.requestMessages, knowledgeContext)
      request == trimContext(spliced.messages)
      verifiedKnowledgeApplied ==
        spliced.applied /\ ~knowledgeContext.isNull
        /\ Includes(request.messages, knowledgeContext.message)
  IN  /\ gr' = [gr EXCEPT ![p] =
                  [call EXCEPT !.knowledgeContext = knowledgeContext,
                               !.attempt = 0,
                               !.retrieval = retrieval,
                               !.finalRequestMessages = request.messages,
                               !.knowledgeApplied = verifiedKnowledgeApplied,
                               !.trimmedRequest = request.trimmed,
                               !.tokenBreakdown =
                                 calculateTokenBreakdown(request.messages,
                                                         verifiedKnowledgeApplied,
                                                         knowledgeContext),
                               !.calls = Invoke(@, "completions")]]
      /\ pc' = [pc EXCEPT ![p] = "completion"]
      /\ heap' = RequestView(heap, call.messages, request.messages)
      /\ UNCHANGED result

\* generateReply rejects with the error
Rejects(p, error) ==
  /\ result' = [result EXCEPT ![p] = [Pending EXCEPT !.state = "rejected", !.error = error]]
  /\ pc' = [pc EXCEPT ![p] = "rejected"]

(* A step of buildKnowledgeContext inside generateReply: the next call of   *)
(* the retrieval is made, or the retrieval returns and generateReply goes   *)
(* on, or it throws and, the await being outside any try, generateReply     *)
(* rejects.  call holds the variables of the call as the step finds them.   *)
Retrieval(p, call, step, nextPc) ==
  CASE step.kind = "continue" ->
         /\ gr' = [gr EXCEPT ![p] =
                     [call EXCEPT !.attempt = 0,
                                  !.calls = Invoke(@, IF nextPc = "embed" THEN "embedTexts"
                                                      ELSE "query")]]
         /\ pc' = [pc EXCEPT ![p] = nextPc]
         /\ UNCHANGED <<heap, result>>
    [] step.kind = "return" -> Proceed(p, call, step.context, step.retrieval)
    [] OTHER -> /\ Rejects(p, step.error)
                /\ gr' = [gr EXCEPT ![p] = call]
                /\ UNCHANGED heap

\* the await of resolveChromaCollection returns: null ends the retrieval, a
\* collection leads to the call of embedTexts
ResolveSettled(p) ==
  /\ Quiet
  /\ pc[p] = "resolve"
  /\ attempts[gr[p].attempt] # "pending"
  /\ Retrieval(p, gr[p], AfterResolve(attempts[gr[p].attempt]), "embed")
  /\ attempts' = CollectAttempts(attempts, chromaCollectionPromise,
                                 Awaited(Requests \ {p}, TRUE))
  /\ UNCHANGED <<conversations, chromaCollectionPromise, startup,
                 nRequests, nResets, nStoreOps, tc, nz, kc>>

\* embedTexts settles: it throws, gives no vector, or gives the query embeddings.
\* The call keeps what the embeddings API settled with.
EmbedSettled(p) ==
  /\ Quiet
  /\ pc[p] = "embed"
  /\ \E outcome \in EmbedOutcomes :
       Retrieval(p, [gr[p] EXCEPT !.embedded = TRUE, !.embedding = outcome],
                 AfterEmbed(outcome), "query")
  /\ UNCHANGED <<conversations, chromaCollectionPromise, attempts, startup,
                 nRequests, nResets, nStoreOps, tc, nz, kc>>

\* collection.query settles: it rejects, or gives a result that holds usable
\* documents or none
QuerySettled(p) ==
  /\ Quiet
  /\ pc[p] = "query"
  /\ \E outcome \in QueryOutcomes :
       Retrieval(p, gr[p], AfterQuery(outcome, gr[p].serial), "completion")
  /\ UNCHANGED <<conversations, chromaCollectionPromise, attempts, startup,
                 nRequests, nResets, nStoreOps, tc, nz, kc>>

\* a callOpenAI that throws an error of its own
callOpenAIWrapped(error) == "OpenAIServiceError"

\* callOpenAI: the error the completion call rejected with is logged and thrown again
callOpenAIError(error) == error

\* the completion call rejects
CompletionRejects(p) ==
  /\ Quiet
  /\ pc[p] = "completion"
  /\ \E error \in ApiErrors :
       /\ Rejects(p, callOpenAIError(error))
       /\ gr' = [gr EXCEPT ![p].apiError = error]
  /\ UNCHANGED <<heap, conversations, chromaCollectionPromise, attempts, startup,
                 nRequests, nResets, nStoreOps, tc, nz, kc>>

(* The completion call resolves: extractResponseMessage throws on missing   *)
(* content; otherwise the assistant message is saved under the conversation *)
(* id, the array held since addUserMessage is trimmed, and the call returns. *)
CompletionResolves(p) ==
  /\ Quiet
  /\ pc[p] = "completion"
  /\ \E response \in Completions :
       /\ gr' = [gr EXCEPT ![p].response = response, ![p].responded = TRUE]
       /\ IF ContentMissing(response)
          THEN /\ Rejects(p, NoContentError)
               /\ UNCHANGED <<heap, conversations>>
          ELSE LET entries == gr[p].knowledgeContext.entries
                   saved == addMessage(Store(heap, conversations), gr[p].conversationId,
                                       EnrichedResponseMessage(response, entries))
                   trimmed == trimStored(saved, gr[p].messages)
                   messages == Deref(trimmed.store.heap, gr[p].messages)
               IN  /\ heap' = trimmed.store.heap
                   /\ conversations' = trimmed.store.conversations
                   /\ result' = [result EXCEPT ![p] =
                        [state |-> "fulfilled",
                         response |-> normalizeAssistantReply(response.content, entries),
                         error |-> "",
                         tokens |->
                           [totalTokens |-> countTokens(messages),
                            usageTokens |-> response.usage,
                            requestTokens |-> gr[p].tokenBreakdown.totalRequestTokens,
                            conversationTokens |-> gr[p].tokenBreakdown.conversationTokens,
                            knowledgeTokens |-> gr[p].tokenBreakdown.knowledgeTokens,
                            userTokens |-> gr[p].tokenBreakdown.userTokens]]]
                   /\ pc' = [pc EXCEPT ![p] = "fulfilled"]
  /\ UNCHANGED <<chromaCollectionPromise, attempts, startup,
                 nRequests, nResets, nStoreOps, tc, nz, kc>>

\* the orchestrator's resetConversation
ResetConversation(conversationId) ==
  /\ Quiet
  /\ nResets < MaxResets
  /\ LET st == resetConversation(Store(heap, conversations), conversationId)
     IN  /\ heap' = Collect(st.heap, st.conversations, Held(Requests))
         /\ conversations' = st.conversations
  /\ nResets' = nResets + 1
  /\ UNCHANGED <<chromaCollectionPromise, attempts, startup, pc, gr, result,
                 nRequests, nStoreOps, tc, nz, kc>>

\* the orchestrator's getConversationHistory, which creates an absent conversation
GetConversationHistory(conversationId) ==
  /\ Quiet
  /\ conversations[conversationId] = 0
  /\ LET e == getMessages(Store(heap, conversations), conversationId)
     IN  heap' = e.store.heap /\ conversations' = e.store.conversations
  /\ UNCHANGED <<chromaCollectionPromise, attempts, startup, pc, gr, result,
                 nRequests, nResets, nStoreOps, tc, nz, kc>>

\* the caller of a settled generateReply call resumes: the call's variables are gone
CallerResumes(p) ==
  /\ Settled(p)
  /\ pc' = [pc EXCEPT ![p] = "idle"]
  /\ gr' = [gr EXCEPT ![p] = NoCall]
  /\ result' = [result EXCEPT ![p] = Pending]
  /\ heap' = Collect(heap, conversations, Held(Requests \ {p}))
  /\ UNCHANGED <<conversations, chromaCollectionPromise, attempts, startup,
                 nRequests, nResets, nStoreOps, tc, nz, kc>>

Next ==
  \/ \E a \in 1..Len(attempts) : CollectionResolves(a) \/ CollectionRejects(a)
  \/ StartupHeartbeatSettled
  \/ StartupResolveSettled
  \/ \E p \in Requests, conversationId \in ConversationIds, message \in UserMessages :
       GenerateReply(p, conversationId, message)
  \/ \E p \in Requests :
       \/ ResolveSettled(p)
       \/ EmbedSettled(p)
       \/ QuerySettled(p)
       \/ CompletionRejects(p)
       \/ CompletionResolves(p)
       \/ CallerResumes(p)

Spec == Init /\ [][Next]_vars

(* --------------------- properties of generateReply -------------------- *)

\* a call that has gone past the retrieval and called the completion API
Proceeded(p) == pc[p] \in {"completion", "fulfilled", "rejected"} /\ gr[p].calls.completions = 1

\* the user message of the call in slot p
UserMessage(p) == Msg("user", gr[p].message)

\* C4: the knowledge message is never stored: whatever generateReply calls have
\* succeeded, failed or are in flight, with knowledge applied or dropped, the
\* only system message of a stored conversation is the system prompt at index 0
\* and no stored message is the message of a knowledge context.
KnowledgeNeverStored ==
  \A conversationId \in ConversationIds :
    conversations[conversationId] # 0 =>
      LET stored == Stored(conversationId)
      IN  /\ stored[1] = SystemMessage
          /\ \A i \in 2..Len(stored) : stored[i].role # "system" /\ stored[i].obj = 0

\* a call whose request carried the knowledge message has stored its reply
KnowledgeAppliedAndSaved ==
  \E p \in Requests :
    /\ pc[p] = "fulfilled"
    /\ gr[p].knowledgeApplied
    /\ Includes(gr[p].finalRequestMessages, gr[p].knowledgeContext.message)
    /\ Len(Stored(gr[p].conversationId)) >= 3

\* C5: when the knowledge message is applied, the request sent has it second to
\* last, and its last element is the user message of the call.
KnowledgeBeforeUserMessage ==
  \A p \in Requests :
    Proceeded(p) /\ gr[p].knowledgeApplied =>
      LET sent == gr[p].finalRequestMessages
      IN  /\ Len(sent) >= 2
          /\ sent[Len(sent) - 1] = gr[p].knowledgeContext.message
          /\ sent[Len(sent)] = UserMessage(p)

\* C6: when the snapshot with the knowledge message spliced in exceeds the token
\* limit, the knowledge message and nothing else is removed: the request sent is
\* the snapshot, and the call reports the knowledge as not applied.
KnowledgeDroppedFirst ==
  \A p \in Requests :
    LET snapshot == gr[p].requestMessages
        spliced == SpliceIn(snapshot, Max(0, Len(snapshot) - 1),
                            gr[p].knowledgeContext.message)
    IN  Proceeded(p) /\ ~gr[p].knowledgeContext.isNull
        /\ countTokens(spliced) > tokenLimit =>
          /\ gr[p].finalRequestMessages = snapshot
          /\ ~gr[p].knowledgeApplied
          /\ gr[p].tokenBreakdown.knowledgeTokens = 0

\* a call whose retrieval gave a context sends a history of three messages or more
\* without the knowledge message
KnowledgeDropped ==
  \E p \in Requests :
    /\ pc[p] = "completion"
    /\ gr[p].retrieval = "chroma.query.success"
    /\ ~gr[p].knowledgeApplied
    /\ Len(gr[p].finalRequestMessages) >= 3
    /\ gr[p].finalRequestMessages = gr[p].requestMessages

\* the step in which the completion call of slot p rejects
CompletionFails(p) == pc[p] = "completion" /\ pc'[p] = "rejected" /\ gr'[p].apiError # ""

\* the step in which generateReply is called in slot p
Called(p) == pc[p] = "idle" /\ pc'[p] = "resolve"

HasNoContent(response) ==
  \/ ~response.hasChoice
  \/ ~response.hasMessage
  \/ response.contentIsNull
  \/ Len(response.content) = 0

\* C8: when the completion response has no content, generateReply throws the
\* no-content error in the step that reads the response, the completion API has
\* been called once and is not called again, and the store is left as it was.
MissingContentThrows ==
  /\ [](\A p \in Requests : gr[p].calls.completions <= 1)
  /\ [][\A p \in Requests :
          pc[p] = "completion" /\ gr'[p].responded /\ HasNoContent(gr'[p].response) =>
            /\ pc'[p] = "rejected"
            /\ result'[p].state = "rejected"
            /\ result'[p].error = NoContentError
            /\ gr'[p].calls.completions = 1
            /\ heap' = heap /\ conversations' = conversations]_vars

\* a call has thrown on a response whose content is the empty string, and the
\* stored conversation is the one its pre-trim left
ThrownOnEmptyContent ==
  \E p \in Requests :
    /\ pc[p] = "rejected"
    /\ gr[p].responded
    /\ gr[p].response.hasMessage /\ ~gr[p].response.contentIsNull
    /\ gr[p].response.content = <<>>
    /\ result[p].error = NoContentError
    /\ Stored(gr[p].conversationId) = gr[p].requestMessages

\* C9: buildKnowledgeContext never rejects: whether the collection cannot be
\* resolved, the embedding fails or is empty, or the query fails or finds no
\* usable document, it gives null and generateReply goes on to the completion
\* call; a generateReply call rejects only after that call.
RetrievalNeverRejects ==
  \A p \in Requests :
    /\ pc[p] = "rejected" =>
         /\ gr[p].calls.completions = 1
         /\ result[p].error \in ApiErrors \cup {NoContentError}
    /\ gr[p].retrieval \in FailedRetrievals \cup EmptyRetrievals =>
         gr[p].knowledgeContext.isNull /\ Proceeded(p)

\* two calls wait for their completions, one after a failed query and one after
\* a failed resolution of the collection
TwoFailedRetrievals ==
  \E p, q \in Requests :
    /\ pc[p] = "completion" /\ gr[p].retrieval = "chroma.query.failed"
    /\ pc[q] = "completion" /\ gr[q].retrieval = "collection.unresolved"

\* a call whose query has returned without an entry to use
ZeroDocuments(q) ==
  /\ gr[q].retrieval \notin FailedRetrievals
  /\ gr[q].knowledgeContext.entries = <<>>

\* C10: of two calls that start from equal histories, one whose retrieval failed
\* and one whose retrieval found no usable document, both send the same request,
\* report the knowledge as not applied with no knowledge tokens, give the same
\* response for the same completion, and neither rejects because of the retrieval.
DegradedRetrievalInvisible ==
  \A p, q \in Requests :
    /\ Proceeded(p) /\ gr[p].retrieval \in FailedRetrievals
    /\ Proceeded(q) /\ ZeroDocuments(q)
    /\ gr[p].requestMessages = gr[q].requestMessages
    => /\ gr[p].finalRequestMessages = gr[q].finalRequestMessages
       /\ gr[p].tokenBreakdown = gr[q].tokenBreakdown
       /\ \A r \in {p, q} :
            /\ ~gr[r].knowledgeApplied
            /\ gr[r].tokenBreakdown.knowledgeTokens = 0
            /\ pc[r] = "rejected" => result[r].error \in ApiErrors \cup {NoContentError}
       /\ \A r, t \in {p, q} :
            pc[r] = "fulfilled" =>
              result[r].response =
                normalizeAssistantReply(gr[r].response.content,
                                        gr[t].knowledgeContext.entries)

\* a call whose retrieval failed has returned its response while a call that
\* started from an equal history and found no usable document waits for its
\* completion
DegradedPair ==
  \E p, q \in Requests :
    /\ pc[p] = "fulfilled" /\ gr[p].retrieval \in FailedRetrievals
    /\ pc[q] = "completion" /\ ZeroDocuments(q)
    /\ gr[q].calls.query = 1
    /\ gr[p].requestMessages = gr[q].requestMessages
    /\ Len(gr[p].requestMessages) >= 2

\* C13: there is no automatic retry: a generateReply call invokes the
\* embedding function, the vector-store query and the completion API at most
\* once each, whatever each of them comes to.
NoRetries ==
  \A p \in Requests :
    /\ gr[p].calls.embedTexts <= 1
    /\ gr[p].calls.query <= 1
    /\ gr[p].calls.completions <= 1
    /\ gr[p].calls.query <= gr[p].calls.embedTexts

\* a call whose query failed and whose completion call failed has rejected after
\* one invocation of each
FailedAfterOneCallEach ==
  \E p \in Requests :
    /\ pc[p] = "rejected"
    /\ gr[p].apiError \in ApiErrors
    /\ gr[p].retrieval = "chroma.query.failed"
    /\ gr[p].calls = [embedTexts |-> 1, query |-> 1, completions |-> 1]

\* the accounting of a payload: conversationTokens is what is left of the request
\* tokens, never less than 0, and no knowledge tokens unless knowledge was applied
Accounted(tokens, requestTokens, knowledgeApplied) ==
  /\ tokens.conversationTokens >= 0
  /\ tokens.conversationTokens
       = Max(0, requestTokens - tokens.knowledgeTokens - tokens.userTokens)
  /\ ~knowledgeApplied => tokens.knowledgeTokens = 0

\* C14: in the token accounting of every call, the one logged before the
\* completion call and the one returned, conversationTokens equals
\* max(0, requestTokens - knowledgeTokens - userTokens) and is not negative, and
\* knowledgeTokens is 0 whenever knowledge was not applied.
TokenAccounting ==
  \A p \in Requests :
    /\ Proceeded(p) =>
         Accounted(gr[p].tokenBreakdown, gr[p].tokenBreakdown.totalRequestTokens,
                   gr[p].knowledgeApplied)
    /\ pc[p] = "fulfilled" =>
         /\ Accounted(result[p].tokens, result[p].tokens.requestTokens,
                      gr[p].knowledgeApplied)
         /\ result[p].tokens.requestTokens = countTokens(gr[p].finalRequestMessages)

\* a call has returned the accounting of a request with a system prompt, the
\* knowledge message and a user message
AccountedWithKnowledge ==
  \E p \in Requests :
    /\ pc[p] = "fulfilled"
    /\ gr[p].knowledgeApplied
    /\ result[p].tokens.knowledgeTokens > 0
    /\ result[p].tokens.userTokens > 0
    /\ result[p].tokens.conversationTokens > 0

\* the embeddings API resolved with one embedding or more, each a non-empty
\* array of finite numbers
UsableVectors(outcome) ==
  /\ ~outcome.rejects
  /\ outcome.data # <<>>
  /\ \A i \in 1..Len(outcome.data) :
       /\ outcome.data[i].isArray
       /\ outcome.data[i].elements # <<>>
       /\ \A j \in 1..Len(outcome.data[i].elements) : outcome.data[i].elements[j] = "finite"

\* C26: buildKnowledgeContext resolves the collection, computes the embedding
\* and queries the vector store in that order and stops at the first failure:
\* without a collection the embedding function is not called, and when the
\* embedding fails, is empty or holds a malformed vector the vector store is
\* not queried.
RetrievalStepsInOrder ==
  /\ [](\A p \in Requests :
          /\ gr[p].calls.query <= gr[p].calls.embedTexts
          /\ gr[p].calls.embedTexts <= 1
          /\ pc[p] = "resolve" => gr[p].calls.embedTexts = 0
          /\ pc[p] = "embed" => gr[p].calls.embedTexts = 1 /\ gr[p].calls.query = 0
          /\ pc[p] = "query" => gr[p].calls.query = 1)
  /\ [][\A p \in Requests :
          /\ pc[p] = "resolve" /\ pc'[p] # "resolve" =>
               gr'[p].calls.embedTexts
                 = (IF attempts[gr[p].attempt] = "fulfilled" THEN 1 ELSE 0)
          /\ pc[p] = "embed" /\ pc'[p] # "embed" =>
               gr'[p].calls.query = (IF UsableVectors(gr'[p].embedding) THEN 1 ELSE 0)]_vars

\* one call has gone to the completion without a query because an embedding was
\* malformed, while another has queried the vector store
StoppedAtMalformedVector ==
  \E p, q \in Requests :
    /\ pc[p] = "completion"
    /\ gr[p].embedded
    /\ gr[p].embedding = [rejects |-> FALSE, data |-> <<Embedding(<<"finite">>), NoEmbedding>>]
    /\ gr[p].calls = [embedTexts |-> 1, query |-> 0, completions |-> 1]
    /\ pc[q] = "completion"
    /\ gr[q].calls = [embedTexts |-> 1, query |-> 1, completions |-> 1]

(* ------------------ properties of the collection cache ---------------- *)

\* the step makes a getOrCreateCollection call
AttemptMade ==
  \E a \in 1..Len(attempts') :
    attempts'[a] = "pending" /\ (a > Len(attempts) \/ attempts[a] # "pending")

\* the step in which attempt a fails
AttemptFails(a) ==
  /\ a \in 1..Len(attempts) /\ attempts[a] = "pending"
  /\ a > Len(attempts') \/ attempts'[a] \in {"rejected", "free"}

\* C11: the resolution of the collection is memoized: at most one
\* getOrCreateCollection attempt is pending at any time, it is the cached one,
\* which every caller that waits for a pending attempt awaits, and once an
\* attempt has succeeded no getOrCreateCollection call is made again.
CollectionMemoized ==
  /\ [](\A a, b \in 1..Len(attempts) :
          attempts[a] = "pending" /\ attempts[b] = "pending" => a = b)
  /\ [](\A a \in 1..Len(attempts) :
          attempts[a] = "pending" => chromaCollectionPromise = a)
  /\ [](\A p \in Requests : pc[p] = "resolve" /\ attempts[gr[p].attempt] = "pending" =>
          gr[p].attempt = chromaCollectionPromise)
  /\ [][(\E a \in 1..Len(attempts) : attempts[a] = "fulfilled") => ~AttemptMade]_vars

\* two generateReply calls and the initializer await the same pending attempt
SharedPendingAttempt ==
  /\ pc[1] = "resolve" /\ pc[2] = "resolve" /\ startup.pc = "resolve"
  /\ gr[1].attempt = startup.attempt /\ gr[2].attempt = startup.attempt
  /\ attempts = <<"pending">>

\* C12: a failed resolution is not cached: when an attempt fails, the cache held
\* that attempt and is cleared in that step, and the cache is cleared in no
\* other way; every caller that awaited the attempt gets null; a resolve call
\* that finds the cache empty makes a new attempt and caches it, and an
\* attempt that has succeeded stays cached.
FailureNotCached ==
  /\ [](\A a \in 1..Len(attempts) : attempts[a] = "fulfilled" => chromaCollectionPromise = a)
  /\ [](chromaCollectionPromise # 0 =>
          attempts[chromaCollectionPromise] \in {"pending", "fulfilled"})
  /\ [][/\ \A a \in 1..Len(attempts) :
             AttemptFails(a) => chromaCollectionPromise = a /\ chromaCollectionPromise' = 0
        /\ chromaCollectionPromise # 0 /\ chromaCollectionPromise' # chromaCollectionPromise =>
             AttemptFails(chromaCollectionPromise) /\ chromaCollectionPromise' = 0
        /\ \A p \in Requests :
             /\ pc[p] = "resolve" /\ pc'[p] # "resolve"
                /\ attempts[gr[p].attempt] = "rejected" =>
                  /\ pc'[p] = "completion"
                  /\ gr'[p].knowledgeContext.isNull
                  /\ gr'[p].calls.embedTexts = 0
             /\ pc[p] = "idle" /\ pc'[p] = "resolve" /\ chromaCollectionPromise = 0 =>
                  /\ AttemptMade
                  /\ chromaCollectionPromise' = gr'[p].attempt
                  /\ attempts'[gr'[p].attempt] = "pending"]_vars

\* a call has got null from a failed attempt, and the attempt made after the
\* failure has succeeded and is cached
RetriedAfterFailure ==
  \E p \in Requests :
    /\ pc[p] = "completion"
    /\ gr[p].retrieval = "collection.unresolved"
    /\ chromaCollectionPromise # 0
    /\ attempts[chromaCollectionPromise] = "fulfilled"

(* ------------- the history service used directly (SpecStore) ----------- *)

\* addMessage of the history service, called with any message
AddMessage(conversationId, message) ==
  /\ Quiet
  /\ nStoreOps < MaxStoreOps
  /\ LET st == addMessage(Store(heap, conversations), conversationId, message)
     IN  heap' = st.heap /\ conversations' = st.conversations
  /\ nStoreOps' = nStoreOps + 1
  /\ UNCHANGED <<chromaVars, callVars, nResets, tc, nz, kc>>

\* trimContext applied to the list getMessages gives for the id
TrimContext(conversationId) ==
  /\ Quiet
  /\ LET e == getMessages(Store(heap, conversations), conversationId)
         st == trimStored(e.store, e.ref).store
     IN  /\ st # Store(heap, conversations)
         /\ heap' = st.heap
         /\ conversations' = st.conversations
  /\ UNCHANGED <<chromaVars, callVars, countVars, tc, nz, kc>>

(* The operations of the history service and of the orchestrator in any     *)
(* order, with one generateReply call at a time, on a deployment whose      *)
(* vector store is down: the initializer of the knowledge base is still     *)
(* waiting for its heartbeat and every resolution of the collection         *)
(* rejects, so that a call goes from the resolution straight to the         *)
(* completion.                                                              *)
NextStore ==
  \/ \E conversationId \in ConversationIds, message \in DirectMessages :
       AddMessage(conversationId, message)
  \/ \E conversationId \in ConversationIds :
       \/ TrimContext(conversationId)
       \/ GetConversationHistory(conversationId)
       \/ ResetConversation(conversationId)
  \/ \E a \in 1..Len(attempts) : CollectionRejects(a)
  \/ \E message \in UserMessages : GenerateReply(1, "c1", message)
  \/ ResolveSettled(1)
  \/ CompletionRejects(1)
  \/ CompletionResolves(1)
  \/ CallerResumes(1)

SpecStore == Init /\ [][NextStore]_vars

\* C1: whatever getMessages, addMessage, trimContext on the stored list,
\* resetConversation and generateReply have done, every conversation the store
\* holds has at least one message and the system prompt of the service first.
SystemPromptFirst ==
  \A conversationId \in ConversationIds :
    conversations[conversationId] # 0 =>
      /\ Len(Stored(conversationId)) >= 1
      /\ Stored(conversationId)[1] = SystemMessage

\* a conversation that has been reset, added to and trimmed while a generateReply
\* call that began before the reset has stored its reply
PromptFirstAfterAll ==
  \E conversationId \in ConversationIds :
    /\ nResets >= 1
    /\ nStoreOps >= 1
    /\ pc[1] = "fulfilled"
    /\ gr[1].conversationId = conversationId
    /\ gr[1].messages # Ref(conversationId, conversations[conversationId])
    /\ gr[1].trimmedBeforeCall
    /\ Len(Stored(conversationId)) >= 2

\* the conversation of the id as an operation finds it: the stored one, or the
\* system prompt alone when the id has none
Found(conversationId) ==
  IF conversations[conversationId] = 0 THEN <<SystemMessage>> ELSE Stored(conversationId)

\* the step resets the conversation of the id
Reset(conversationId) ==
  nResets' = nResets + 1 /\ conversations'[conversationId] # conversations[conversationId]

\* C15: after resetConversation(id), getMessages(id) gives exactly one message,
\* the system prompt, whatever the conversation held before and whether or not
\* the id had a conversation, and reading it changes nothing.
ResetThenGetMessages ==
  [][\A conversationId \in ConversationIds :
       Reset(conversationId) =>
         LET after == Store(heap', conversations')
             e == getMessages(after, conversationId)
         IN  /\ Deref(e.store.heap, e.ref) = <<SystemMessage>>
             /\ e.store = after]_vars

\* a conversation is the system prompt alone after a reset that came while a
\* generateReply call held its earlier array of two messages or more
ResetLongConversation ==
  \E conversationId \in ConversationIds :
    /\ nResets = 1
    /\ conversations[conversationId] = 2
    /\ Stored(conversationId) = <<SystemMessage>>
    /\ InFlight(1) /\ gr[1].messages = Ref(conversationId, 1)
    /\ Len(heap[conversationId][1]) >= 2

\* C16: getMessages(id) creates the conversation as the system prompt alone when
\* the id has none, and is idempotent: a second getMessages(id) gives the same
\* array with the same content and leaves the store as the first left it, and
\* the first leaves the store as it is when the id has a conversation.
GetMessagesIdempotent ==
  \A conversationId \in ConversationIds :
    LET st == Store(heap, conversations)
        first == getMessages(st, conversationId)
        second == getMessages(first.store, conversationId)
    IN  /\ conversations[conversationId] = 0 =>
             Deref(first.store.heap, first.ref) = <<SystemMessage>>
        /\ conversations[conversationId] # 0 =>
             first.store = st /\ Deref(st.heap, first.ref) = Stored(conversationId)
        /\ second.store = first.store
        /\ second.ref = first.ref
        /\ \A other \in ConversationIds \ {conversationId} :
             /\ first.store.conversations[other] = conversations[other]
             /\ first.store.heap[other] = heap[other]

\* a conversation that only getMessages can have created, next to one that has
\* been added to
CreatedByGetMessages ==
  \E conversationId, other \in ConversationIds :
    /\ nResets = 0 /\ nRequests = 0
    /\ conversations[conversationId] = 1
    /\ Stored(conversationId) = <<SystemMessage>>
    /\ conversations[other] = 1
    /\ Len(Stored(other)) = 3

\* C17: addMessage(id, m) makes the conversation of the id what it was, or the
\* system prompt alone when the id had none, with m appended as its last
\* element, and changes no other conversation.
AddMessageAppends ==
  [][nStoreOps' = nStoreOps + 1 =>
       \E conversationId \in ConversationIds :
         /\ conversations'[conversationId] # 0
         /\ \E message \in DirectMessages :
              heap'[conversationId][conversations'[conversationId]]
                = Append(Found(conversationId), message)
         /\ \A other \in ConversationIds \ {conversationId} :
              conversations'[other] = conversations[other] /\ heap'[other] = heap[other]]_vars

\* a message has been added to a conversation that held a user message and a reply
AddedToConversation ==
  \E conversationId \in ConversationIds :
    LET stored == Stored(conversationId)
    IN  /\ conversations[conversationId] # 0
        /\ nStoreOps >= 1
        /\ Len(stored) = 4
        /\ stored[2].role = "user" /\ stored[3].role = "assistant"
        /\ stored[4] \in DirectMessages

(* ------------- the request sent and the order of the steps ------------ *)

\* C24: every message set that generateReply sends to the completion API is
\* within budget: when the completion is called the set weighs at most
\* tokenLimit tokens or is a single message.
RequestWithinBudget ==
  \A p \in Requests :
    gr[p].calls.completions = 1 =>
      \/ countTokens(gr[p].finalRequestMessages) <= tokenLimit
      \/ Len(gr[p].finalRequestMessages) = 1

\* a request of two messages or more was sent within budget, the knowledge
\* message having been left out because the set would have exceeded tokenLimit
\* with it
BudgetEnforcedOnRequest ==
  \E p \in Requests :
    /\ pc[p] = "completion"
    /\ ~gr[p].knowledgeContext.isNull /\ ~gr[p].knowledgeApplied
    /\ Len(gr[p].finalRequestMessages) >= 2
    /\ countTokens(gr[p].finalRequestMessages) <= tokenLimit
    /\ countTokens(Append(gr[p].finalRequestMessages, gr[p].knowledgeContext.message))
         > tokenLimit

\* the assistant messages of the conversation that the store c over the heap h
\* holds for the id
AssistantsIn(h, c, conversationId) ==
  IF c[conversationId] = 0 THEN 0
  ELSE Cardinality({i \in 1..Len(h[conversationId][c[conversationId]]) :
                      h[conversationId][c[conversationId]][i].role = "assistant"})

\* C25: within one generateReply call the user message is appended to the stored
\* history and the history pre-trimmed before the first suspension, the request
\* snapshot is taken before the retrieval starts, the completion API is invoked
\* only after the retrieval has settled, and an assistant message is appended to
\* the stored history only after the completion returned non-empty content.
StepsInOrder ==
  /\ [](\A p \in Requests :
          /\ pc[p] \in {"resolve", "embed", "query"} =>
               gr[p].calls.completions = 0 /\ ~gr[p].responded
          /\ gr[p].calls.completions = 1 => pc[p] \in {"completion", "fulfilled", "rejected"})
  /\ [][/\ \A p \in Requests :
             Called(p) =>
               LET conversationId == gr'[p].conversationId
                   expected == trimContext(Append(Found(conversationId),
                                                  Msg("user", gr'[p].message))).messages
               IN  /\ heap'[conversationId][conversations'[conversationId]] = expected
                   /\ gr'[p].requestMessages = expected
                   /\ gr'[p].calls = [embedTexts |-> 0, query |-> 0, completions |-> 0]
        /\ \A conversationId \in ConversationIds :
             AssistantsIn(heap', conversations', conversationId)
               > AssistantsIn(heap, conversations, conversationId) =>
               \E p \in Requests :
                 /\ pc[p] = "completion" /\ pc'[p] = "fulfilled"
                 /\ gr[p].conversationId = conversationId
                 /\ gr[p].calls.completions = 1
                 /\ gr'[p].responded /\ ~HasNoContent(gr'[p].response)]_vars

\* a call has gone through the retrieval and the completion and its reply is the
\* last message stored
AllStepsTaken ==
  \E p \in Requests :
    /\ pc[p] = "fulfilled"
    /\ gr[p].calls = [embedTexts |-> 1, query |-> 1, completions |-> 1]
    /\ gr[p].knowledgeApplied
    /\ LET stored == Stored(gr[p].conversationId)
       IN  /\ stored[Len(stored)].role = "assistant"
           /\ stored[Len(stored) - 1] = Msg("user", gr[p].message)

\* C32 as stated: in the token accounting of a call that has resolved, userTokens
\* is the token count of the user message the call came with, and the call's
\* knowledgeApplied flag is true exactly when the knowledge message is an element
\* of the set sent to the completion API.
PayloadDescribesRequest ==
  \A p \in Requests :
    pc[p] = "fulfilled" =>
      /\ result[p].tokens.userTokens = countTokens(<<UserMessage(p)>>)
      /\ gr[p].knowledgeApplied
           <=> /\ ~gr[p].knowledgeContext.isNull
               /\ Includes(gr[p].finalRequestMessages, gr[p].knowledgeContext.message)

\* C37 as stated: every message set sent to the completion API has the system
\* prompt of the conversation at index 0 and holds the user message the call
\* came with, which the pre-trim has therefore not evicted.
RequestHoldsPromptAndMessage ==
  \A p \in Requests :
    gr[p].calls.completions = 1 =>
      /\ gr[p].finalRequestMessages[1] = SystemMessage
      /\ Includes(gr[p].finalRequestMessages, UserMessage(p))
      /\ Includes(gr[p].requestMessages, UserMessage(p))

\* C38: the trim of the request's own copy after the knowledge splice never
\* evicts a message: the set sent to the completion API is the pre-trimmed
\* snapshot, with the knowledge message inserted before its last element if and
\* only if the knowledge was applied, so that trim never removes a knowledge
\* message marked applied.
RequestTrimEvictsNothing ==
  \A p \in Requests :
    gr[p].calls.completions = 1 =>
      /\ ~gr[p].trimmedRequest
      /\ gr[p].finalRequestMessages =
           IF gr[p].knowledgeApplied
             THEN SpliceIn(gr[p].requestMessages,
                           KnowledgeSpliceStart(gr[p].requestMessages),
                           gr[p].knowledgeContext.message)
           ELSE gr[p].requestMessages
      /\ gr[p].knowledgeApplied =>
           Includes(gr[p].finalRequestMessages, gr[p].knowledgeContext.message)

\* a request went out as the snapshot with the knowledge message inserted before
\* the user message, weighing tokenLimit exactly, the trim of the copy having
\* found nothing to evict
SnapshotSentWithKnowledge ==
  \E p \in Requests :
    /\ pc[p] = "completion"
    /\ gr[p].knowledgeApplied /\ ~gr[p].trimmedRequest
    /\ gr[p].requestMessages = <<SystemMessage, UserMessage(p)>>
    /\ gr[p].finalRequestMessages
         = <<SystemMessage, gr[p].knowledgeContext.message, UserMessage(p)>>
    /\ countTokens(gr[p].finalRequestMessages) = tokenLimit

\* the step is one of the call in slot p between its pre-trim and its assistant
\* append: a step of the retrieval, the splice and trim of the request's own
\* set with the call of the completion API, or the failure of that call
BetweenTrimAndAppend(p) ==
  \/ pc[p] \in {"resolve", "embed", "query"} /\ pc'[p] # pc[p]
  \/ pc[p] = "completion" /\ pc'[p] = "rejected"

\* C35: the request view is a copy: splicing the knowledge message into the
\* request's own set, removing it from there or trimming that set leaves the
\* stored conversations as they are, so between its pre-trim and its assistant
\* append a generateReply call changes no stored conversation and no array a
\* call holds.
RequestViewIsCopy ==
  [][\A p \in Requests :
       BetweenTrimAndAppend(p) => heap' = heap /\ conversations' = conversations]_vars

\* a call has spliced the knowledge message into its request and called the
\* completion API, and the stored conversation is still the snapshot it took
StoredUntouchedBySplice ==
  \E p \in Requests :
    /\ pc[p] = "completion"
    /\ gr[p].knowledgeApplied
    /\ Includes(gr[p].finalRequestMessages, gr[p].knowledgeContext.message)
    /\ Stored(gr[p].conversationId) = gr[p].requestMessages
    /\ Stored(gr[p].conversationId) # gr[p].finalRequestMessages

(* ------------- one conversation, replies and resets (SpecReset) -------- *)

(* One caller that sends the messages of one conversation one after the    *)
(* other, each through the whole retrieval, and resets the conversation at  *)
(* any moment; the initializer of the knowledge base is still waiting for   *)
(* its heartbeat.                                                           *)
NextReset ==
  \/ \E a \in 1..Len(attempts) : CollectionResolves(a) \/ CollectionRejects(a)
  \/ \E message \in UserMessages : GenerateReply(1, "c1", message)
  \/ ResolveSettled(1)
  \/ EmbedSettled(1)
  \/ QuerySettled(1)
  \/ CompletionRejects(1)
  \/ CompletionResolves(1)
  \/ CallerResumes(1)
  \/ ResetConversation("c1")

SpecReset == Init /\ [][NextReset]_vars

\* no generateReply call for the id is in flight or about to return
NoneInFlight(conversationId) ==
  \A p \in Requests : pc[p] # "idle" => gr[p].conversationId # conversationId

\* the conversation of the id is as a reset leaves it when no call is in flight
AsResetLeftIt(conversationId) ==
  /\ conversations[conversationId] # 0
  /\ Stored(conversationId) = <<SystemMessage>>
  /\ NoneInFlight(conversationId)

\* C23: after resetConversation(id) with no generateReply for the id in flight,
\* the messages the next generateReply(id, m) sends to the completion API are
\* only the system prompt, possibly the knowledge message, and m.  The reset
\* leaves the system prompt alone, nothing but the next call for the id changes
\* that, the snapshot of that call holds the system prompt and m at most, and
\* what a call sends is made of its snapshot and its knowledge message.
ResetDiscardsHistory ==
  /\ [](\A p \in Requests :
          gr[p].calls.completions = 1 =>
            \A i \in 1..Len(gr[p].finalRequestMessages) :
              \/ Includes(gr[p].requestMessages, gr[p].finalRequestMessages[i])
              \/ /\ ~gr[p].knowledgeContext.isNull
                 /\ gr[p].finalRequestMessages[i] = gr[p].knowledgeContext.message)
  /\ [][\A conversationId \in ConversationIds :
          /\ Reset(conversationId) /\ NoneInFlight(conversationId) =>
               AsResetLeftIt(conversationId)'
          /\ AsResetLeftIt(conversationId)
             /\ ~(\E p \in Requests : Called(p) /\ gr'[p].conversationId = conversationId) =>
               AsResetLeftIt(conversationId)'
          /\ \A p \in Requests :
               Called(p) /\ gr'[p].conversationId = conversationId
               /\ AsResetLeftIt(conversationId) =>
                 \A i \in 1..Len(gr'[p].requestMessages) :
                   gr'[p].requestMessages[i]
                     \in {SystemMessage, Msg("user", gr'[p].message)}]_vars

\* the second call, made after a reset of the conversation the first had written
\* to, sends the system prompt, the knowledge message and its own message
SentAfterReset ==
  /\ nResets = 1 /\ nRequests = 2
  /\ pc[1] = "completion"
  /\ gr[1].messages = Ref("c1", 2)
  /\ gr[1].knowledgeApplied
  /\ gr[1].finalRequestMessages
       = <<SystemMessage, gr[1].knowledgeContext.message, Msg("user", HiThere)>>

\* the last message of the conversation stored for the id of call p is the
\* assistant message whose content is the response the call returned
ReplyIsLast(p) ==
  LET stored == Stored(gr[p].conversationId)
  IN  stored[Len(stored)] = Msg("assistant", result[p].response)

\* C30 as stated: when generateReply has resolved, the assistant reply of the
\* turn is the last message of the conversation stored for the id, with the
\* normalized response returned to the caller as its content.
ReplyStoredLast ==
  \A p \in Requests : pc[p] = "fulfilled" => ReplyIsLast(p)

\* the final trim has removed the reply: the array the call holds is the stored
\* one, and the reply exceeds tokenLimit together with the message at index 0
ReplyTrimmedAway(p) ==
  /\ gr[p].messages = Ref(gr[p].conversationId, conversations[gr[p].conversationId])
  /\ countTokens(<<SystemMessage, Msg("assistant", result[p].response)>>) > tokenLimit

\* C30 amended: when generateReply has resolved, the assistant reply of the turn
\* is the last message of the conversation stored for the id, with the
\* normalized response returned to the caller as its content, unless the final
\* trim has removed it, which leaves the system prompt alone.
ReplyStoredUnlessTrimmed ==
  \A p \in Requests :
    pc[p] = "fulfilled" =>
      IF ReplyTrimmedAway(p) THEN Stored(gr[p].conversationId) = <<SystemMessage>>
      ELSE ReplyIsLast(p)

\* a reply whose placeholder link was filled from the knowledge entries is stored
\* last, as returned
NormalizedReplyStored ==
  /\ pc[1] = "fulfilled"
  /\ gr[1].response.content = PlaceholderLink
  /\ result[1].response = <<"a", "\n">> \o DocSource
  /\ ReplyIsLast(1)
  /\ Len(Stored("c1")) >= 3

\* the call in slot p has resolved after a reset of its conversation overtook it:
\* the array it holds since addUserMessage is no longer the one stored for the id
OvertakenByReset(p) ==
  /\ pc[p] = "fulfilled"
  /\ gr[p].messages # Ref(gr[p].conversationId, conversations[gr[p].conversationId])

\* C31 as stated: whenever a generateReply call has completed its final trim,
\* whatever resets of the id came in between, the conversation stored for the id
\* weighs at most tokenLimit tokens or is a single message, and the totalTokens
\* the call reports is the token count of that stored conversation.
StoredWithinBudgetAfterReply ==
  \A p \in Requests :
    pc[p] = "fulfilled" =>
      LET stored == Stored(gr[p].conversationId)
      IN  /\ countTokens(stored) <= tokenLimit \/ Len(stored) = 1
          /\ result[p].tokens.totalTokens = countTokens(stored)

\* C36 as stated: when resetConversation(id) was called while a generateReply
\* call for the id was suspended, the conversation stored for the id after the
\* call has finished holds no message of that turn, neither its user message nor
\* its assistant reply.
ResetDiscardsTurnInFlight ==
  \A p \in Requests :
    OvertakenByReset(p) =>
      LET stored == Stored(gr[p].conversationId)
      IN  /\ ~Includes(stored, UserMessage(p))
          /\ ~Includes(stored, Msg("assistant", result[p].response))

(* --------- overlapping turns of one conversation (SpecTurns) ----------- *)

\* the messages of the turns: a short one, and one that fits the budget once
\* beside the system prompt but not twice
TurnMessages == {HiThere, LongMessage}

(* Two callers of generateReply on one conversation whose calls overlap, and *)
(* no reset; the vector store is down, so that a call goes from the          *)
(* resolution of the collection straight to the completion.                  *)
NextTurns ==
  \/ \E a \in 1..Len(attempts) : CollectionRejects(a)
  \/ \E p \in Requests, message \in TurnMessages : GenerateReply(p, "c1", message)
  \/ \E p \in Requests :
       \/ ResolveSettled(p)
       \/ CompletionRejects(p)
       \/ CompletionResolves(p)
       \/ CallerResumes(p)

SpecTurns == Init /\ [][NextTurns]_vars

\* new is old with the message appended at its end and then some of the oldest
\* messages after index 0 removed, the order of the others being kept
KeepsOrder(old, new, message) ==
  \E k \in 0..Len(old) :
    new = <<old[1]>> \o SubSeq(Append(old, message), k + 2, Len(old) + 1)

\* the step in which the call in slot p resolves
Resolves(p) == pc[p] = "completion" /\ pc'[p] = "fulfilled"

\* C34: with generateReply calls on one id interleaved and no reset, no append
\* is lost or reordered: a call appends its user message when it is made and
\* its reply when it resolves, each at the end of the stored conversation, so a
\* reply stands after the user message it answers, and a trim removes only the
\* oldest messages after index 0, so the messages that survive keep the order
\* in which they were appended; no other step changes the stored conversation.
AppendsKeepOrder ==
  [][\A conversationId \in ConversationIds :
       LET old == Found(conversationId)
           appends(p) ==
             \/ Called(p) /\ gr'[p].conversationId = conversationId
             \/ Resolves(p) /\ gr[p].conversationId = conversationId
       IN  /\ \A p \in Requests :
                Called(p) /\ gr'[p].conversationId = conversationId =>
                  /\ conversations'[conversationId] # 0
                  /\ KeepsOrder(old, heap'[conversationId][conversations'[conversationId]],
                                Msg("user", gr'[p].message))
           /\ \A p \in Requests :
                Resolves(p) /\ gr[p].conversationId = conversationId =>
                  /\ conversations'[conversationId] = conversations[conversationId]
                  /\ KeepsOrder(old, heap'[conversationId][conversations'[conversationId]],
                                Msg("assistant", result'[p].response))
           /\ ~(\E p \in Requests : appends(p)) =>
                /\ conversations'[conversationId] = conversations[conversationId]
                /\ conversations[conversationId] # 0 =>
                     heap'[conversationId][conversations[conversationId]]
                       = Stored(conversationId)]_vars

\* the second of two overlapping calls has resolved after a trim removed the
\* first call's user message: what is stored is the second user message, the
\* reply to the first and the reply to the second, in the order of their appends
OrderKeptThroughTrim ==
  LET stored == Stored("c1")
  IN  /\ pc[2] = "fulfilled"
      /\ gr[2].trimmedBeforeCall
      /\ Len(stored) = 4
      /\ stored[2] = UserMessage(2)
      /\ stored[3].role = "assistant"
      /\ stored[4] = Msg("assistant", result[2].response)

\* C33: generateReply calls on one id are not mutually excluded: a call can be
\* made while another is in flight on the id, and when the stored conversation
\* is still the snapshot of the call in flight and the pre-trim evicts nothing,
\* its request is that snapshot, which ends with the user message of the call
\* in flight, followed by its own user message: the reply to the former is not
\* there.
OverlappingCallSeesUserMessage ==
  [][\A p, q \in Requests :
       /\ p # q /\ Called(q) /\ InFlight(p)
       /\ gr[p].conversationId = gr'[q].conversationId
       /\ Found(gr[p].conversationId) = gr[p].requestMessages
       /\ countTokens(<<SystemMessage, UserMessage(p)>>) <= tokenLimit
       /\ ~gr'[q].trimmedBeforeCall
       => LET request == gr'[q].requestMessages
          IN  /\ Len(request) >= 3
              /\ request[Len(request)] = Msg("user", gr'[q].message)
              /\ request[Len(request) - 1] = UserMessage(p)
              /\ SubSeq(request, 1, Len(request) - 1) = gr[p].requestMessages]_vars

\* two overlapping calls have both resolved, and both user messages stand before
\* both replies in the stored conversation; the request of the call made second
\* held the first call's user message and no reply
BothUsersBeforeBothReplies ==
  LET stored == Stored("c1")
  IN  /\ pc[1] = "idle" /\ pc[2] = "fulfilled" /\ nRequests = 2
      /\ gr[2].message = LongMessage
      /\ gr[2].requestMessages
           = <<SystemMessage, Msg("user", HiThere), Msg("user", LongMessage)>>
      /\ Len(stored) = 5
      /\ SubSeq(stored, 1, 3) = gr[2].requestMessages
      /\ stored[4].role = "assistant"
      /\ stored[5] = Msg("assistant", result[2].response)

(* ------------------- isolation of the conversations -------------------- *)

\* the conversation that the store c over the heap h holds for the id, the empty
\* list when it holds none
StoredIn(h, c, conversationId) ==
  IF c[conversationId] = 0 THEN <<>> ELSE h[conversationId][c[conversationId]]

\* the step changes the conversation stored for the id
ChangedFor(conversationId) ==
  StoredIn(heap', conversations', conversationId)
    # StoredIn(heap, conversations, conversationId)

\* C40: conversations are isolated per id: a step of addMessage,
\* resetConversation, trimContext or generateReply changes the stored
\* conversation of one id at most, a step of a generateReply call changes that
\* of the call's id only, a step that changes the conversation of an id leaves
\* the calls on other ids and the sets they send as they are, and the snapshot
\* a call sends from is the conversation stored for its own id.
ConversationsIsolated ==
  [][\A conversationId \in ConversationIds :
       /\ ChangedFor(conversationId) =>
            /\ \A other \in ConversationIds \ {conversationId} : ~ChangedFor(other)
            /\ \A p \in Requests :
                 pc[p] # "idle" /\ gr[p].conversationId # conversationId =>
                   gr'[p] = gr[p]
       /\ \A p \in Requests :
            /\ pc'[p] # pc[p] /\ pc'[p] # "idle" /\ gr'[p].conversationId # conversationId
               => ~ChangedFor(conversationId)
            /\ Called(p) /\ gr'[p].conversationId = conversationId =>
                 gr'[p].requestMessages = StoredIn(heap', conversations', conversationId)]_vars

\* while a call on "c1" is waiting for the completion with the request made of
\* its own conversation, the conversation of "c2" holds a message added to it
\* that the request does not hold
OtherConversationApart ==
  /\ pc[1] = "completion" /\ gr[1].conversationId = "c1"
  /\ gr[1].finalRequestMessages = <<SystemMessage, UserMessage(1)>>
  /\ Stored("c1") = gr[1].finalRequestMessages
  /\ conversations["c2"] # 0 /\ nStoreOps >= 1
  /\ Len(Stored("c2")) = 2
  /\ Stored("c2")[2] \in DirectMessages
  /\ ~Includes(gr[1].finalRequestMessages, Stored("c2")[2])

(* ------------------- trimContext on its own (SpecTrim) ----------------- *)

\* the messages the lists handed to trimContext are made of
OversizePrompt == Msg("system", Rep("s", tokenLimit + 1))
TrimMessages ==
  { SystemMessage, OversizePrompt, Msg("user", HiThere), Msg("user", LongMessage),
    Msg("assistant", HugeMessage), PartsMsg("user", <<TextPart(LongMessage), ImagePart>>),
    NullMsg("assistant") }

TrimInputs == UNION {[1..n -> TrimMessages] : n \in 0..MaxTrimLen}

\* trimContext has been called with a list
InitTrim ==
  /\ InitService
  /\ tc \in {[phase |-> "called", input |-> messages, messages |-> messages,
              trimmed |-> FALSE, first |-> <<>>] : messages \in TrimInputs}
  /\ nz = NoNormalizeCall
  /\ kc = NoContextCall

\* trimContext returns: the list is as the loop left it
TrimContextReturns ==
  /\ tc.phase = "called"
  /\ LET r == trimContext(tc.messages)
     IN  tc' = [tc EXCEPT !.phase = "returned", !.messages = r.messages,
                          !.trimmed = r.trimmed, !.first = r.messages]
  /\ UNCHANGED <<storeVars, chromaVars, callVars, countVars, nz, kc>>

\* trimContext is called on the same list again, nothing having been appended,
\* and returns
TrimContextAgain ==
  /\ tc.phase = "returned"
  /\ LET r == trimContext(tc.messages)
     IN  tc' = [tc EXCEPT !.phase = "again", !.messages = r.messages,
                          !.trimmed = r.trimmed]
  /\ UNCHANGED <<storeVars, chromaVars, callVars, countVars, nz, kc>>

NextTrim == TrimContextReturns \/ TrimContextAgain

SpecTrim == InitTrim /\ [][NextTrim]_vars

\* C2: after trimContext returns, the list fits the token limit or has exactly
\* one element left; element 0 is never removed, so a prompt that exceeds the
\* limit alone is left alone in the list.
TrimPostcondition ==
  tc.phase = "returned" =>
    /\ countTokens(tc.messages) <= tokenLimit \/ Len(tc.messages) = 1
    /\ Len(tc.input) >= 1 => Len(tc.messages) >= 1 /\ tc.messages[1] = tc.input[1]

\* trimContext has returned from a list of three whose first element alone exceeds
\* the limit
TrimStoppedAtOne ==
  /\ tc.phase = "returned"
  /\ Len(tc.input) = 3
  /\ countTokens(<<tc.input[1]>>) > tokenLimit
  /\ Len(tc.messages) = 1

\* element 0 of the list followed by the list from its element k + 1 on
KeptAfter(messages, k) ==
  IF messages = <<>> THEN <<>>
  ELSE <<messages[1]>> \o SubSeq(messages, k + 2, Len(messages))

\* the least number of removals after which the list fits or is down to one element
LeastRemovals(messages) ==
  IF messages = <<>> THEN 0
  ELSE CHOOSE k \in 0..(Len(messages) - 1) :
         /\ countTokens(KeptAfter(messages, k)) <= tokenLimit \/ k = Len(messages) - 1
         /\ \A j \in 0..(k - 1) : countTokens(KeptAfter(messages, j)) > tokenLimit

\* C3: trimContext removes oldest first: the list it leaves is element 0 followed
\* by the longest suffix of the other messages that fits the limit, and it
\* returns true exactly when it removed a message.
TrimIsFifo ==
  tc.phase = "returned" =>
    /\ tc.messages = KeptAfter(tc.input, LeastRemovals(tc.input))
    /\ tc.trimmed = (LeastRemovals(tc.input) > 0)
    /\ tc.trimmed = (Len(tc.messages) < Len(tc.input))

\* trimContext has removed the older of two different messages and kept the newer
TrimKeptNewer ==
  /\ tc.phase = "returned"
  /\ Len(tc.input) = 3
  /\ tc.input[2] # tc.input[3]
  /\ tc.trimmed
  /\ tc.messages = <<tc.input[1], tc.input[3]>>

\* C18: trimContext is idempotent: called again on the list it has left, with
\* nothing appended in between, it removes nothing, leaves the list as it was
\* and returns false.
TrimIdempotent ==
  tc.phase = "again" => tc.messages = tc.first /\ ~tc.trimmed

\* trimContext has been called again on a list of two messages that its first
\* call had cut down from three
TrimmedTwice ==
  /\ tc.phase = "again"
  /\ Len(tc.input) = 3
  /\ Len(tc.first) = 2
  /\ Len(tc.messages) = 2

(* ------------ normalizeAssistantReply on its own (SpecNormalize) ------- *)

\* the pieces the texts handed to normalizeAssistantReply are made of: links with
\* the target #, a target that starts with #, a blank target, a target that is a
\* URL and one that holds none, a link whose label is a replacement pattern of
\* String.prototype.replace, plain text, a bracket that nothing closes, and a
\* label followed by an empty target, which the pattern does not match
HashLink == <<"[", "a", "]", "(", "#", ")">>
AnchorLink == <<"[", "b", "]", "(", "#", "x", ")">>
BlankLink == <<"[", "c", "]", "(", " ", ")">>
UrlLink == <<"[", "d", "]", "(", "h", "t", "t", "p", ":", "/", "/", "y", ")">>
DeadLink == <<"[", " ", "e", " ", "]", "(", "f", ")">>
PatternLink == <<"[", "$", "&", "]", "(", "#", ")">>
PlainText == <<" ", "g", " ">>
OpenBracket == <<"[", "h">>
EmptyTargetLink == <<"[", "l", "]", "(", ")">>

NormalizePieces ==
  {HashLink, AnchorLink, BlankLink, UrlLink, DeadLink, PatternLink, PlainText,
   OpenBracket, EmptyTargetLink}

RECURSIVE Concat(_)
Concat(pieces) == IF pieces = <<>> THEN <<>> ELSE Head(pieces) \o Concat(Tail(pieces))

NormalizeContents ==
  {Concat(pieces) : pieces \in UNION {[1..n -> NormalizePieces] : n \in 0..MaxPieces}}

\* the knowledge entries: sources that are URLs, one of them to be trimmed, the
\* source "unknown" of a document without one, and a source that is no string
Entry(sourceIsString, source) ==
  [title |-> <<"T">>, sourceIsString |-> sourceIsString, source |-> source]

NormalizeSources ==
  { Entry(TRUE, <<"h", "t", "t", "p", ":", "/", "/", "u">>), Entry(TRUE, <<" ", "h", "t", "t", "p", "s", ":", "/", "/", "v", ".", " ">>),
    Entry(TRUE, UnknownSource), Entry(FALSE, <<>>) }

NormalizeEntries == UNION {[1..n -> NormalizeSources] : n \in 0..MaxEntries}

\* normalizeAssistantReply has been called with a text and knowledge entries
InitNormalize ==
  /\ InitService
  /\ tc = NoTrimCall
  /\ kc = NoContextCall
  /\ nz \in {[phase |-> "called", content |-> content, knowledgeEntries |-> knowledgeEntries,
              output |-> <<>>] :
               content \in NormalizeContents, knowledgeEntries \in NormalizeEntries}

\* normalizeAssistantReply returns
NormalizeReturns ==
  /\ nz.phase = "called"
  /\ nz' = [nz EXCEPT !.phase = "returned",
                      !.output = normalizeAssistantReply(nz.content, nz.knowledgeEntries)]
  /\ UNCHANGED <<storeVars, chromaVars, callVars, countVars, tc, kc>>

NextNormalize == NormalizeReturns

SpecNormalize == InitNormalize /\ [][NextNormalize]_vars

\* the sources that are strings and, trimmed, start with http:// or https://,
\* trimmed and in the order of the entries
Candidates(knowledgeEntries) ==
  LET usable(entry) == entry.sourceIsString /\ isHttpUrl(Trim(entry.source))
      kept == SelectSeq(knowledgeEntries, usable)
  IN  [i \in 1..Len(kept) |-> Trim(kept[i].source)]

\* a target that is # or starts with #, and, when blankCounts, a blank target too
Placeholder(link, blankCounts) ==
  StartsWith(Trim(link), <<"#">>) \/ (blankCounts /\ Trim(link) = <<>>)

(* The text in which, link after link, the k-th placeholder link has been   *)
(* replaced by its label and the k-th candidate, or by its label when there *)
(* is no k-th candidate, and every other link by its label and the URL of   *)
(* its own target, or by its label when the target holds none.              *)
RECURSIVE RewriteFrom(_, _, _, _, _)
RewriteFrom(text, matches, k, candidates, blankCounts) ==
  IF matches = <<>> THEN text
  ELSE LET match == Head(matches)
           queued == Placeholder(match.link, blankCounts)
           own == resolveUrl(match.link, <<>>)
           found == IF queued THEN k <= Len(candidates) ELSE own.found
           url == IF queued /\ found THEN candidates[k] ELSE own.url
           replacement == IF found THEN formatLink(match.label, url)
                          ELSE Trim(match.label)
       IN  RewriteFrom(Replace(text, match.fullMatch, replacement), Tail(matches),
                       IF queued THEN k + 1 ELSE k, candidates, blankCounts)

Rewritten(content, knowledgeEntries, blankCounts) ==
  RewriteFrom(content, LinkMatches(content), 1, Candidates(knowledgeEntries), blankCounts)

\* C19 as stated: the candidates are the sources that are strings starting with
\* http:// or https://, trimmed, in retrieval order, and the i-th link whose
\* target is # or starts with # receives the i-th candidate, no candidate
\* serving two links and no other source being substituted.
HashLinksTakeCandidatesInOrder ==
  nz.phase = "returned" => nz.output = Rewritten(nz.content, nz.knowledgeEntries, FALSE)

\* C19 amended: the candidates are the sources that are strings starting with
\* http:// or https:// once trimmed, in retrieval order, and the i-th link whose
\* target is blank, is # or starts with # receives the i-th candidate, no
\* candidate serving two links and no other source being substituted.
PlaceholdersTakeCandidatesInOrder ==
  nz.phase = "returned" => nz.output = Rewritten(nz.content, nz.knowledgeEntries, TRUE)

\* of three placeholder links the first two have received the two candidates, in
\* the order of the entries, and the third is left with its label
QueueConsumedInOrder ==
  /\ nz.phase = "returned"
  /\ nz.content = HashLink \o AnchorLink \o HashLink
  /\ Candidates(nz.knowledgeEntries) = <<<<"h", "t", "t", "p", "s", ":", "/", "/", "v", ".">>, <<"h", "t", "t", "p", ":", "/", "/", "u">>>>
  /\ nz.output = <<"a", "\n", "h", "t", "t", "p", "s", ":", "/", "/", "v", "b", "\n", "h", "t", "t", "p", ":", "/", "/", "u", "a">>

\* the text with every link replaced by its trimmed label
RECURSIVE LabelsOnly(_)
LabelsOnly(text) ==
  IF text = <<>> THEN <<>>
  ELSE LET match == LinkMatchAt(text)
       IN  IF match.length = 0 THEN <<Head(text)>> \o LabelsOnly(Tail(text))
           ELSE Trim(match.label) \o LabelsOnly(From(text, match.length + 1))

\* no link of the text can be resolved: there is no candidate, and no target
\* holds a URL
NothingResolves(content, knowledgeEntries) ==
  /\ Candidates(knowledgeEntries) = <<>>
  /\ \A i \in 1..Len(LinkMatches(content)) :
       ~resolveUrl(LinkMatches(content)[i].link, <<>>).found

\* C20: a link whose target cannot be resolved, a placeholder when the queue is
\* empty or a target without a URL, is replaced by its trimmed label alone.
UnresolvedLinkKeepsLabel ==
  nz.phase = "returned" /\ NothingResolves(nz.content, nz.knowledgeEntries) =>
    nz.output = LabelsOnly(nz.content)

\* the text holds a markdown link: a bracketed label of one character or more
\* without a closing bracket, directly followed by a parenthesised target of one
\* character or more without a closing parenthesis
HasMarkdownLink(text) ==
  \E j \in 3..(Len(text) - 3) :
    /\ text[j] = "]" /\ text[j + 1] = "(" /\ text[j + 2] # ")" /\ text[j - 1] # "]"
    /\ \E k \in (j + 3)..Len(text) : text[k] = ")"
    /\ \E i \in 1..(j - 2) :
         text[i] = "[" /\ \A x \in (i + 1)..(j - 1) : text[x] # "]"

\* C21: normalizeAssistantReply returns its input unchanged whenever the text
\* holds no [, or no ), or no markdown link at all, whatever the knowledge
\* entries are.
NoLinkUnchanged ==
  nz.phase = "returned"
  /\ (~Includes(nz.content, "[") \/ ~Includes(nz.content, ")")
      \/ ~HasMarkdownLink(nz.content)) =>
    nz.output = nz.content

\* a text with brackets and parentheses but no link has come back as it was,
\* though a candidate URL was at hand
ReturnedWithoutLink ==
  /\ nz.phase = "returned"
  /\ nz.content = OpenBracket \o PlainText \o EmptyTargetLink
  /\ Candidates(nz.knowledgeEntries) # <<>>
  /\ nz.output = nz.content

\* C22: after normalization no markdown link syntax is left: whatever the text
\* and the knowledge entries, the output of normalizeAssistantReply holds no
\* closing bracket directly followed by an opening parenthesis.
NoLinkSyntaxRemains ==
  nz.phase = "returned" =>
    \A i \in 1..(Len(nz.output) - 1) : ~(nz.output[i] = "]" /\ nz.output[i + 1] = "(")

\* C29: the text [label]() with its empty target is a placeholder: it becomes the
\* label and the next candidate URL when there is one, and the label alone
\* otherwise.
EmptyTargetIsPlaceholder ==
  nz.phase = "returned" /\ nz.content = EmptyTargetLink =>
    LET candidates == Candidates(nz.knowledgeEntries)
    IN  nz.output = IF candidates # <<>> THEN formatLink(<<"l">>, candidates[1])
                    ELSE <<"l">>

\* C39 as stated: normalizeAssistantReply is idempotent for a fixed list of
\* knowledge entries: normalizing its output again with the same entries gives
\* that output.
NormalizeIdempotent ==
  nz.phase = "returned" =>
    normalizeAssistantReply(nz.output, nz.knowledgeEntries) = nz.output

(* ------- the formatting of a query result on its own (SpecContext) ----- *)

\* the options chromaMaxResults and chromaMaxCharacters of the service: the
\* defaults, a quotient below the minimum, and no result asked for
ContextOptions ==
  { [chromaMaxResults |-> chromaMaxResults, chromaMaxCharacters |-> chromaMaxCharacters],
    [chromaMaxResults |-> 5, chromaMaxCharacters |-> 100],
    [chromaMaxResults |-> 0, chromaMaxCharacters |-> 250] }

\* documents: null, empty, short, and as long as each limit and one character longer
ContextDocuments ==
  {NullDoc, Doc(<<>>), Doc(DocText)}
  \cup {Doc(Rep("d", n)) : n \in {200, 201, 250, 251, 300, 301}}

\* metadatas: null, with title and source, and with one of them that is no string
ContextMetadatas ==
  { NoMetadata, Metadata(DocTitle, DocSource),
    [Metadata(DocTitle, DocSource) EXCEPT !.hasTitle = FALSE, !.title = <<>>],
    [Metadata(DocTitle, DocSource) EXCEPT !.hasSource = FALSE, !.source = <<>>] }

ContextResults ==
  {[documents |-> documents, metadatas |-> metadatas, distances |-> distances] :
     documents \in UNION {[1..n -> ContextDocuments] : n \in 0..MaxDocuments},
     metadatas \in UNION {[1..n -> ContextMetadatas] : n \in 0..MaxDocuments},
     distances \in {<<>>, <<Distance(12345)>>}}

\* collection.query has resolved with a result in a service created with options
InitContext ==
  /\ InitService
  /\ tc = NoTrimCall
  /\ nz = NoNormalizeCall
  /\ kc \in {[phase |-> "called", chromaMaxResults |-> options.chromaMaxResults,
              chromaMaxCharacters |-> options.chromaMaxCharacters,
              queryResult |-> queryResult, context |-> NullContext] :
               options \in ContextOptions, queryResult \in ContextResults}

\* buildKnowledgeContext returns what it makes of the query result
ContextReturns ==
  /\ kc.phase = "called"
  /\ kc' = [kc EXCEPT !.phase = "returned",
                      !.context = ContextWith(kc.queryResult, 1,
                                              DocumentLimit(kc.chromaMaxCharacters,
                                                            kc.chromaMaxResults))]
  /\ UNCHANGED <<storeVars, chromaVars, callVars, countVars, tc, nz>>

NextContext == ContextReturns

SpecContext == InitContext /\ [][NextContext]_vars

\* the positions (from 1) of the documents that are neither null nor empty, in
\* result order
KeptPositions(documents) ==
  LET kept(i) == ~documents[i].isNull /\ documents[i].text # <<>>
  IN  SelectSeq([i \in 1..Len(documents) |-> i], kept)

\* the title and source that the claim gives the document at position i
ExpectedEntry(queryResult, i) ==
  LET present == i <= Len(queryResult.metadatas) /\ ~queryResult.metadatas[i].isNull
      metadata == queryResult.metadatas[i]
  IN  [title |-> IF present /\ metadata.hasTitle THEN metadata.title
                 ELSE SnippetPrefix \o NatToString(i),
       sourceIsString |-> TRUE,
       source |-> IF present /\ metadata.hasSource THEN metadata.source
                  ELSE UnknownSource]

\* C27: the context has exactly one entry per document that is neither null nor
\* empty, in result order; its title is the metadata title when that is a string
\* and snippet-N otherwise, N the position of the document in the whole result
\* list, and its source the metadata source when that is a string and unknown
\* otherwise; with no usable document the result is null.
EntriesFollowDocuments ==
  kc.phase = "returned" =>
    LET kept == KeptPositions(kc.queryResult.documents)
    IN  IF kept = <<>> THEN kc.context.isNull
        ELSE /\ ~kc.context.isNull
             /\ kc.context.entries
                  = [k \in 1..Len(kept) |-> ExpectedEntry(kc.queryResult, kept[k])]

\* the first document was skipped and the second, which has no metadata, is
\* entered as snippet-2 from an unknown source
SecondDocumentIsSnippetTwo ==
  /\ kc.phase = "returned"
  /\ kc.queryResult.documents = <<NullDoc, Doc(DocText)>>
  /\ kc.queryResult.metadatas = <<Metadata(DocTitle, DocSource)>>
  /\ kc.context.entries
       = <<[title |-> <<"s", "n", "i", "p", "p", "e", "t", "-", "2">>,
            sourceIsString |-> TRUE, source |-> UnknownSource]>>

\* the limit L of the claim, and the body it gives a document
ClaimedLimit(maxCharacters, maxResults) ==
  LET k == IF maxResults >= 1 THEN maxResults ELSE 1
      quotient == maxCharacters \div k
  IN  IF quotient >= 200 THEN quotient ELSE 200

ExpectedBody(text, limit) ==
  IF Len(text) <= limit THEN text
  ELSE [i \in 1..limit |-> IF i <= limit - 3 THEN text[i] ELSE "."]

\* the line of the knowledge block for the document at position i, with the body
\* the claim gives it
ExpectedLine(queryResult, i, limit) ==
  LET entry == ExpectedEntry(queryResult, i)
      score == IF i <= Len(queryResult.distances) /\ queryResult.distances[i].isNumber
               THEN ScoreLabel \o ToFixed4(queryResult.distances[i].value) ELSE <<>>
  IN  EntryOpen \o entry.title \o SourceLabel \o entry.source \o score \o EntryClose
      \o ExpectedBody(queryResult.documents[i].text, limit)

\* C28: each document body in the knowledge block has at most
\* L = max(200, floor(maxCharacters / max(1, K))) characters: a body of at most L
\* characters is there unchanged, and a longer one is cut to its first L - 3
\* characters followed by three dots, L characters in all.
BodiesWithinLimit ==
  kc.phase = "returned" /\ ~kc.context.isNull =>
    LET limit == ClaimedLimit(kc.chromaMaxCharacters, kc.chromaMaxResults)
        kept == KeptPositions(kc.queryResult.documents)
    IN  /\ kc.context.message.content
             = KnowledgeHeader
               \o JoinLines([k \in 1..Len(kept) |->
                               ExpectedLine(kc.queryResult, kept[k], limit)])
        /\ \A k \in 1..Len(kept) :
             Len(ExpectedBody(kc.queryResult.documents[kept[k]].text, limit)) <= limit

\* with the limit at its minimum of 200, a body of 200 characters is in the block
\* unchanged and one of 201 is cut to 197 characters and three dots
CutAtMinimumLimit ==
  /\ kc.phase = "returned"
  /\ kc.chromaMaxResults = 5 /\ kc.chromaMaxCharacters = 100
  /\ kc.queryResult.documents = <<Doc(Rep("d", 200)), Doc(Rep("d", 201))>>
  /\ kc.queryResult.metadatas = <<>> /\ kc.queryResult.distances = <<>>
  /\ LET content == kc.context.message.content
         n == Len(content)
     IN  /\ SubSeq(content, n - 199, n) = Rep("d", 197) \o Ellipsis
         /\ content[n - 200] = " "

====
